---- MODULE Spec2Model ----
(***************************************************************************)
(* Discovery subsystem of image-prompt-app: duplicate resolution           *)
(* (discovery/service.py), the reference store (discovery/store.py) and    *)
(* the HTTP handlers that mutate references (discovery/router.py).         *)
(*                                                                         *)
(* Conventions.  A perceptual hash is the sequence of the hexadecimal      *)
(* digits of the 16-character string compute_phash returns (0..15 each).   *)
(* A quality score (a float in [0,1]) is an integer level; only its order  *)
(* is used by the code.  A weight is held in tenths (1.0 = 10, 1.5 = 15).  *)
(* uuid4() is a fresh integer.                                             *)
(***************************************************************************)
EXTENDS Integers, Sequences, FiniteSets, TLC

\* ------------------------------------------------------------------ bounds
MaxItems == 3          \* longest raw candidate list given to process_raw_items
MaxLimit == 2          \* largest limit argument
MaxResults == 1        \* most results one adapter search returns
MaxFiles == 1          \* most files in one local upload
MaxUploads == 1        \* local uploads per behaviour

\* select, hide, delete and star requests of one behaviour
MaxActions == 2

MaxFeatures == 3       \* most selected references given to aggregate_traits
MaxRequests == 2       \* acquire() calls of one run
MaxClock == 8          \* the last tick of the clock
Second == 2            \* ticks per second

\* ------------------------------------------------------- program constants
DUP_DISTANCE == 8      \* service.py: if distance <= 8
HASH_BITS == 64        \* phash.py: hamming_distance returns 64 on ValueError
DEFAULT_WEIGHT == 10   \* models.py: Reference.weight = 1.0

None == "None"
NoHash == <<>>         \* Reference.p_hash is None (or empty: "not p_hash")

\* ------------------------------------------------------------ phash.py
Max(a, b) == IF a >= b THEN a ELSE b

Bit(n, i) == (n \div (2 ^ i)) % 2

\* number of differing bits of two hexadecimal digits
NibbleDistance(a, b) == Cardinality({i \in 0..3 : Bit(a, i) # Bit(b, i)})

\* int(hash, 16) raises ValueError on an empty string or a non-hex character
IsHex(h) == Len(h) > 0 /\ \A i \in 1..Len(h) : h[i] \in 0..15

\* the k-th hexadecimal digit counted from the least significant one
DigitFromRight(h, k) == IF k <= Len(h) THEN h[Len(h) + 1 - k] ELSE 0

RECURSIVE XorPopcount(_, _, _)
XorPopcount(a, b, k) ==
    IF k = 0 THEN 0
    ELSE NibbleDistance(DigitFromRight(a, k), DigitFromRight(b, k))
         + XorPopcount(a, b, k - 1)

hamming_distance(hash_a, hash_b) ==
    IF ~IsHex(hash_a) \/ ~IsHex(hash_b) THEN HASH_BITS
    ELSE XorPopcount(hash_a, hash_b, Max(Len(hash_a), Len(hash_b)))

\* ------------------------------------------------- images (inputs)
Zeros(n) == [i \in 1..n |-> 0]
Ones(n) == [i \in 1..n |-> 15]

\* Hashes compute_phash can return (16 digits, top bit 0).  HashA, HashB and
\* HashC form a chain: A-B and B-C are 8 bits apart, A-C 16;  HashE is 9 bits
\* from HashA;  HashD is far from all.
HashA == Zeros(16)
HashB == Zeros(14) \o Ones(2)
HashC == Zeros(12) \o Ones(4)
HashD == <<7>> \o Ones(7) \o Zeros(8)
HashE == Zeros(13) \o <<1>> \o Ones(2)

Sites == {"openverse", "unsplash", "generic", "local"}

\* A raw adapter item as process_raw_items sees it.  h and q are what
\* compute_phash and evaluate_quality return for its image.  fail says where
\* lines 80-85 raise: "fetch" (fetch_source or normalize_image, before the
\* thumbnail is written), "hash" (compute_phash, evaluate_quality or
\* detect_watermark, after store_thumbnail) or "none".  width_ok: the
\* provider's width and height pass Reference's Optional[int].
RawItem(id, site, h, q, fail, width_ok) ==
    [id |-> id, site |-> site, h |-> h, q |-> q, fail |-> fail, width_ok |-> width_ok]

\* models.py Reference (the fields the discovery code reads or writes)
Reference(id, session_id, site, p_hash, quality) ==
    [id |-> id, session_id |-> session_id, site |-> site, p_hash |-> p_hash,
     quality |-> quality, status |-> "result", weight |-> DEFAULT_WEIGHT]

\* pydantic validation of Reference(...): site is a Literal, width Optional[int]
ReferenceValid(item) == item.site \in Sites /\ item.width_ok

\* ------------------------------------------- service.py process_raw_items
RECURSIVE FirstDuplicate(_, _, _)
\* index of the first baseline entry within DUP_DISTANCE of reference, or 0
FirstDuplicate(baseline, reference, i) ==
    IF i > Len(baseline) THEN 0
    ELSE IF baseline[i].p_hash = NoHash \/ reference.p_hash = NoHash
         THEN FirstDuplicate(baseline, reference, i + 1)
    ELSE IF hamming_distance(baseline[i].p_hash, reference.p_hash) <= DUP_DISTANCE
         THEN i
    ELSE FirstDuplicate(baseline, reference, i + 1)

duplicate_action_ge(reference, existing_ref) ==
    IF reference.quality >= existing_ref.quality THEN "replace" ELSE "skip"

duplicate_action(reference, existing_ref) ==
    IF reference.quality > existing_ref.quality THEN "replace" ELSE "skip"

RemoveAt(s, i) == SubSeq(s, 1, i - 1) \o SubSeq(s, i + 1, Len(s))

\* baseline.remove(x): drops the first element equal to x
RECURSIVE IndexOf(_, _, _)
IndexOf(s, x, i) ==
    IF i > Len(s) THEN 0 ELSE IF s[i] = x THEN i ELSE IndexOf(s, x, i + 1)

ListRemove(s, x) == IF IndexOf(s, x, 1) = 0 THEN s ELSE RemoveAt(s, IndexOf(s, x, 1))

\* thumbs.store_thumbnail: the file of reference_id now holds the image
store_thumbnail(thumbs, reference_id, image) ==
    [k \in DOMAIN thumbs \cup {reference_id} |->
        IF k = reference_id THEN image ELSE thumbs[k]]

\* The state of the loop of process_raw_items, with the thumbnail directory
\* it writes to; raised: Reference(...) raised out of the function.
LoopState(processed, duplicates, baseline, new_count, raised, thumbs) ==
    [processed |-> processed, duplicates |-> duplicates, baseline |-> baseline,
     new_count |-> new_count, raised |-> raised, thumbs |-> thumbs]

LoopStart(existing, thumbs) == LoopState(<<>>, 0, existing, 0, FALSE, thumbs)

\* the cap is checked before the duplicate scan: duplicates met after the
\* cap are dropped unresolved
Resolve_cap_first(st, reference, limit) ==
    LET d == FirstDuplicate(st.baseline, reference, 1)
        action == IF d = 0 THEN None ELSE duplicate_action(reference, st.baseline[d])
    IN  IF st.new_count >= limit
        THEN st
        ELSE IF action = "skip"
        THEN [st EXCEPT !.duplicates = @ + 1]
        ELSE IF action = "replace"
        THEN LET replaced == [reference EXCEPT !.id = st.baseline[d].id]
             IN  [st EXCEPT !.duplicates = @ + 1,
                            !.baseline = Append(ListRemove(@, st.baseline[d]), replaced),
                            !.processed = Append(@, replaced)]
        ELSE IF st.new_count >= limit
        THEN st
        ELSE [st EXCEPT !.baseline = Append(@, reference),
                        !.processed = Append(@, reference),
                        !.new_count = @ + 1]

\* lines 118-149: what one constructed reference does to the loop state
Resolve(st, reference, limit) ==
    LET d == FirstDuplicate(st.baseline, reference, 1)
        action == IF d = 0 THEN None ELSE duplicate_action(reference, st.baseline[d])
    IN  IF action = "skip"
        THEN [st EXCEPT !.duplicates = @ + 1]
        ELSE IF action = "replace"
        THEN LET replaced == [reference EXCEPT !.id = st.baseline[d].id]
             IN  [st EXCEPT !.duplicates = @ + 1,
                            !.baseline = Append(ListRemove(@, st.baseline[d]), replaced),
                            !.processed = Append(@, replaced)]
        ELSE IF st.new_count >= limit
        THEN st
        ELSE [st EXCEPT !.baseline = Append(@, reference),
                        !.processed = Append(@, reference),
                        !.new_count = @ + 1]

\* the try/except of lines 79-88 is missing: a failing candidate aborts
LoopBody_abort(st, session_id, item, limit) ==
    IF item.fail # "none" THEN [st EXCEPT !.raised = TRUE]
    ELSE IF ~ReferenceValid(item) THEN [st EXCEPT !.raised = TRUE]
    ELSE Resolve([st EXCEPT !.thumbs = store_thumbnail(@, item.id, <<item.h, item.q>>)],
                 Reference(item.id, session_id, item.site, item.h, item.q), limit)

\* lines 71-149: one iteration of the loop
LoopBody(st, session_id, item, limit) ==
    IF item.fail = "fetch" THEN st
    ELSE IF item.fail = "hash"
    THEN [st EXCEPT !.thumbs = store_thumbnail(@, item.id, <<item.h, item.q>>)]
    ELSE IF ~ReferenceValid(item)
    THEN [st EXCEPT !.thumbs = store_thumbnail(@, item.id, <<item.h, item.q>>),
                    !.raised = TRUE]
    ELSE Resolve([st EXCEPT !.thumbs = store_thumbnail(@, item.id, <<item.h, item.q>>)],
                 Reference(item.id, session_id, item.site, item.h, item.q), limit)

RECURSIVE LoopFrom(_, _, _, _, _)
LoopFrom(st, session_id, items, limit, i) ==
    IF i > Len(items) \/ st.raised THEN st
    ELSE LoopFrom(LoopBody(st, session_id, items[i], limit), session_id, items, limit, i + 1)

\* the whole call: the final loop state (processed and duplicates are the
\* returned pair)
process_raw_items(session_id, items, limit, existing, thumbs) ==
    LoopFrom(LoopStart(existing, thumbs), session_id, items, limit, 1)

\* ------------------------------------------------------------ store.py
\* models.py DiscoverStats; dup_rate is the fraction <<numerator, denominator>>
DiscoverStats(found, unique, selected, dup_rate) ==
    [found |-> found, unique |-> unique, selected |-> selected, dup_rate |-> dup_rate]

ZeroRate == <<0, 1>>
NewStats == DiscoverStats(0, 0, 0, ZeroRate)

\* (duplicate_count / len(items)) if items else 0.0
DupRate(duplicate_count, found) ==
    IF found > 0 THEN <<duplicate_count, found>> ELSE ZeroRate

\* create_session: the row of a new DiscoverSession
NewSession(adapters) == [status |-> "idle", stats |-> NewStats, adapters |-> adapters]

update_session_status(table, session_id, status) ==
    [table EXCEPT ![session_id].status = status]

update_session_stats(table, session_id, stats) ==
    [table EXCEPT ![session_id].stats = stats]

\* position of the row with this primary key, or 0
RECURSIVE RowOf(_, _, _)
RowOf(table, id, i) ==
    IF i > Len(table) THEN 0 ELSE IF table[i].id = id THEN i ELSE RowOf(table, id, i + 1)

\* INSERT ... ON CONFLICT(id) DO UPDATE: the whole payload is replaced and
\* the row keeps its rowid
UpsertOne(table, ref) ==
    IF RowOf(table, ref.id, 1) = 0 THEN Append(table, ref)
    ELSE [table EXCEPT ![RowOf(table, ref.id, 1)] = ref]

RECURSIVE upsert_references(_, _)
upsert_references(table, references) ==
    IF references = <<>> THEN table
    ELSE upsert_references(UpsertOne(table, Head(references)), Tail(references))

\* list_references(session_id, status=None, offset=0, limit=1000): rowid order
list_references(table, session_id) ==
    LET InSession(ref) == ref.session_id = session_id
    IN  SelectSeq(table, InSession)

\* the callers' filter: [ref for ref in existing_refs if ref.status != "deleted"]
ExistingRefs(table, session_id) ==
    LET NotDeleted(ref) == ref.status # "deleted"
    IN  SelectSeq(list_references(table, session_id), NotDeleted)

\* the payload is rebuilt around the new status and loses its p_hash
update_reference_status_rebuilt(table, session_id, reference_id, status) ==
    [i \in 1..Len(table) |->
        IF table[i].id = reference_id /\ table[i].session_id = session_id
        THEN [table[i] EXCEPT !.status = status, !.p_hash = NoHash] ELSE table[i]]

\* UPDATE ... SET payload = json_set(payload, '$.status', ?) WHERE id AND session_id
update_reference_status(table, session_id, reference_id, status) ==
    [i \in 1..Len(table) |->
        IF table[i].id = reference_id /\ table[i].session_id = session_id
        THEN [table[i] EXCEPT !.status = status] ELSE table[i]]

\* UPDATE ... SET payload = json_set(payload, '$.weight', ?) WHERE id AND session_id
update_reference_weight(table, session_id, reference_id, weight) ==
    [i \in 1..Len(table) |->
        IF table[i].id = reference_id /\ table[i].session_id = session_id
        THEN [table[i] EXCEPT !.weight = weight] ELSE table[i]]

\* get_reference finds a row (the WHERE id = ? AND session_id = ? clause)
HasReference(table, session_id, reference_id) ==
    \E i \in 1..Len(table) :
        table[i].id = reference_id /\ table[i].session_id = session_id

\* get_reference: the row found
get_reference(table, session_id, reference_id) ==
    table[CHOOSE i \in 1..Len(table) :
             table[i].id = reference_id /\ table[i].session_id = session_id]

\* ------------------------------------------------------------------ state
VARIABLES
    r_items,      \* process_raw_items: the items argument
    r_limit,      \* the limit argument
    r_existing,   \* the existing argument
    r_idx,        \* index of the next item of the for loop
    r_st,         \* processed, duplicates, baseline, new_count, raised
    r_pc,         \* "loop", "returned" or "raised"
    sessions,     \* store: the sessions table, session id -> row
    refs,         \* store: the references table, rows in rowid order
    thumbs,       \* data/discovery/thumbs: reference id -> image written
    next_id,      \* the next value uuid4() returns
    run,          \* the background run_discovery task of each session
    handler,      \* the request handler the event loop is executing
    uploads,      \* number of local uploads handled so far
    actions,      \* number of select, hide, delete and star requests so far
    clock,        \* time.monotonic(), in ticks
    limiter,      \* the RateLimiter of each run: rate, _last_ts, _lock
    caller,       \* each acquire() call: its position and return instant
    a_in,         \* aggregate_traits: the (feature, weight) list built
    a_out,        \* aggregate_traits: the DatasetTraits returned
    p_in,         \* build_master_prompt: its arguments
    p_out,        \* build_master_prompt: the payload returned
    h_in,         \* hamming_distance: its two arguments
    h_out,        \* hamming_distance: the distance returned
    feature_rows, \* store: the features table, rows keyed by reference_id
    cached_traits, \* store: the traits table, session id -> cached traits
    response,     \* the last curation request and what it was answered
    workers       \* request handlers of other worker processes on the same store

rvars == <<r_items, r_limit, r_existing, r_idx, r_st, r_pc>>

svars == <<sessions, refs, thumbs, next_id, run, handler, uploads, actions>>

lvars == <<clock, limiter, caller>>

avars == <<a_in, a_out>>

pvars == <<p_in, p_out>>

hvars == <<h_in, h_out>>

cvars == <<feature_rows, cached_traits, response>>

wvars == <<workers>>

vars == <<r_items, r_limit, r_existing, r_idx, r_st, r_pc,
          sessions, refs, thumbs, next_id, run, handler, uploads, actions,
          clock, limiter, caller, a_in, a_out, p_in, p_out,
          h_in, h_out, feature_rows, cached_traits, response, workers>>

\* the sessions the model creates
SessionIds == {"s1"}

\* item k of a call gets the id uuid4() draws for it (adapters/local.py 32,
\* service.py 78): fresh ids first, first + 1, ...
WithIds(items, first) ==
    [k \in 1..Len(items) |-> [items[k] EXCEPT !.id = first + k - 1]]

SeqsUpTo(S, n) == UNION {[1..k -> S] : k \in 0..n}

Min(a, b) == IF a <= b THEN a ELSE b

\* no request in progress on the event loop
Idle == [op |-> "idle"]

\* the locals of one run_discovery call; outcome records what each
\* adapter.search call gave
RunTask(pc, adapters, limit, stats, existing, outcome, aggregated, references, duplicate_count) ==
    [pc |-> pc, adapters |-> adapters, limit |-> limit, stats |-> stats,
     existing |-> existing, outcome |-> outcome, aggregated |-> aggregated,
     references |-> references, duplicate_count |-> duplicate_count]

\* a run_discovery task that has not been scheduled
NoRun == RunTask("none", <<>>, 0, NewStats, <<>>, <<>>, <<>>, <<>>, 0)

\* the system before the first request
SysStart ==
    /\ sessions = <<>>
    /\ refs = <<>>
    /\ thumbs = <<>>
    /\ next_id = 1
    /\ run = [s \in SessionIds |-> NoRun]
    /\ handler = Idle
    /\ uploads = 0
    /\ actions = 0

\* ---------------------------------------------- service.py run_discovery
\* adapter lists a search request names ("local" is no search adapter)
AdapterChoices == {<<"local">>, <<"unsplash">>, <<"openverse", "generic">>}

\* what one provider can list: two images, and one record whose width is
\* not an integer
ProviderItems(name) ==
    {RawItem(0, name, HashB, 3, "none", TRUE),
     RawItem(0, name, HashD, 1, "none", TRUE),
     RawItem(0, name, HashD, 1, "none", FALSE)}

\* adapter.search(client, query, limit): raises, or returns at most limit
\* result dicts (results[:limit]); generic.py returns one even for limit 0
SearchOutcomes(name, limit) ==
    {[raised |-> TRUE, results |-> <<>>]}
    \cup {[raised |-> FALSE, results |-> l] :
            l \in SeqsUpTo(ProviderItems(name), Min(limit, MaxResults))}

\* _build_adapters: the known names, in the order given
RECURSIVE _build_adapters(_)
_build_adapters(names) ==
    IF names = <<>> THEN <<>>
    ELSE (IF Head(names) \in {"openverse", "unsplash", "generic"}
          THEN <<Head(names)>> ELSE <<>>) \o _build_adapters(Tail(names))

Range(f) == {f[x] : x \in DOMAIN f}

\* the inner try/except of lines 182-186 is missing: a raising adapter
\* aborts the pooling
RECURSIVE search_all_unguarded(_, _)
search_all_unguarded(adapters, outcome) ==
    IF adapters = <<>> THEN [raised |-> FALSE, aggregated |-> <<>>]
    ELSE IF outcome[Head(adapters)].raised THEN [raised |-> TRUE, aggregated |-> <<>>]
    ELSE LET rest == search_all_unguarded(Tail(adapters), outcome)
         IN  [raised |-> rest.raised,
              aggregated |-> outcome[Head(adapters)].results \o rest.aggregated]

\* lines 181-187: pool the results of the adapters that do not raise
RECURSIVE search_all(_, _)
search_all(adapters, outcome) ==
    IF adapters = <<>> THEN [raised |-> FALSE, aggregated |-> <<>>]
    ELSE LET rest == search_all(Tail(adapters), outcome)
         IN  [raised |-> rest.raised,
              aggregated |-> (IF outcome[Head(adapters)].raised THEN <<>>
                              ELSE outcome[Head(adapters)].results) \o rest.aggregated]

\* line 198 returns after the error status is written
error_next_pc_fallthrough == "upserted"

error_next_pc == "done"

\* lines 207-208: the two store calls that end a successful run, in order
finish_calls_ready_first == <<"ready", "stats">>

finish_calls == <<"stats", "ready">>

\* router.py 103-113, create_discovery_session: store.create_session
CreateSession(s, adapters, limit) ==
    /\ handler = Idle
    /\ s \notin DOMAIN sessions
    /\ sessions' = (s :> NewSession(adapters)) @@ sessions
    /\ handler' = [op |-> "create", session_id |-> s, limit |-> limit]
    /\ UNCHANGED <<refs, thumbs, next_id, run, uploads, actions>>
    /\ UNCHANGED rvars
    /\ UNCHANGED <<lvars, avars, pvars, hvars, cvars, wvars>>

\* ... then update_session_status(fetching) and the background task
CreateSchedule ==
    /\ handler.op = "create"
    /\ sessions' = update_session_status(sessions, handler.session_id, "fetching")
    /\ run' = [run EXCEPT ![handler.session_id] =
                  RunTask("queued", sessions[handler.session_id].adapters, handler.limit,
                          NewStats, <<>>, <<>>, <<>>, <<>>, 0)]
    /\ handler' = Idle
    /\ UNCHANGED <<refs, thumbs, next_id, uploads, actions>>
    /\ UNCHANGED rvars
    /\ UNCHANGED <<lvars, avars, pvars, hvars, cvars, wvars>>

\* lines 161-177: get_session, status fetching, the baseline snapshot
RunBegin(s) ==
    /\ run[s].pc = "queued"
    /\ sessions' = update_session_status(sessions, s, "fetching")
    /\ run' = [run EXCEPT ![s].pc = "begun",
                          ![s].stats = sessions[s].stats,
                          ![s].existing = ExistingRefs(refs, s)]
    /\ UNCHANGED <<refs, thumbs, next_id, handler, uploads, actions>>
    /\ UNCHANGED rvars
    /\ UNCHANGED <<lvars, avars, pvars, hvars, cvars, wvars>>

\* lines 180, 195-198: httpx.AsyncClient cannot be built or entered
RunClientError(s) ==
    /\ run[s].pc = "begun"
    /\ sessions' = update_session_status(sessions, s, "error")
    /\ run' = [run EXCEPT ![s].pc = error_next_pc]
    /\ UNCHANGED <<refs, thumbs, next_id, handler, uploads, actions>>
    /\ UNCHANGED rvars
    /\ UNCHANGED <<lvars, avars, pvars, hvars, cvars, wvars>>

\* lines 181-201: the searches and process_raw_items (no store access),
\* then either the except branch or upsert_references
RunSearch(s, outcome) ==
    LET pooled == search_all(_build_adapters(run[s].adapters), outcome)
        items == WithIds(pooled.aggregated, next_id)
        st == process_raw_items(s, items, run[s].limit, run[s].existing, thumbs)
    IN  /\ run[s].pc = "begun"
        /\ next_id' = next_id + Len(items)
        /\ \/ /\ (pooled.raised \/ st.raised)
              /\ thumbs' = IF pooled.raised THEN thumbs ELSE st.thumbs
              /\ sessions' = update_session_status(sessions, s, "error")
              /\ run' = [run EXCEPT ![s].pc = error_next_pc,
                                    ![s].outcome = outcome,
                                    ![s].aggregated = items]
              /\ UNCHANGED refs
           \/ /\ ~pooled.raised
              /\ ~st.raised
              /\ thumbs' = st.thumbs
              /\ refs' = upsert_references(refs, st.processed)
              /\ run' = [run EXCEPT ![s].pc = "upserted",
                                    ![s].outcome = outcome,
                                    ![s].aggregated = items,
                                    ![s].references = st.processed,
                                    ![s].duplicate_count = st.duplicates]
              /\ UNCHANGED sessions
        /\ UNCHANGED <<handler, uploads, actions>>
        /\ UNCHANGED rvars
        /\ UNCHANGED <<lvars, avars, pvars, hvars, cvars, wvars>>

\* lines 203-206: the statistics of the run
RunStats(task) ==
    [task.stats EXCEPT !.found = Len(task.aggregated),
                       !.unique = Len(task.references),
                       !.dup_rate = DupRate(task.duplicate_count, Len(task.aggregated))]

\* lines 203-208: one of the two closing store calls
RunFinish(s) ==
    /\ run[s].pc \in {"upserted", "finishing"}
    /\ LET call == finish_calls[IF run[s].pc = "upserted" THEN 1 ELSE 2]
       IN  sessions' = IF call = "stats"
                       THEN update_session_stats(sessions, s, RunStats(run[s]))
                       ELSE update_session_status(sessions, s, "ready")
    /\ run' = [run EXCEPT ![s].pc = IF run[s].pc = "upserted" THEN "finishing" ELSE "done",
                          ![s].stats = RunStats(run[s])]
    /\ UNCHANGED <<refs, thumbs, next_id, handler, uploads, actions>>
    /\ UNCHANGED rvars
    /\ UNCHANGED <<lvars, avars, pvars, hvars, cvars, wvars>>

\* ------------------------------------------------------------ router.py
\* an uploaded file: whether its content type starts with "image/", whether
\* it is longer than MAX_FILE_SIZE, and the image it holds
UploadFile(image, oversized, item) ==
    [image |-> image, oversized |-> oversized, item |-> item]

\* images a client uploads: two images (the first a lower-quality
\* near-duplicate of a provider's), and one file Pillow cannot decode
UploadItems ==
    {RawItem(0, "local", HashA, 2, "none", TRUE),
     RawItem(0, "local", HashD, 1, "none", TRUE),
     RawItem(0, "local", HashD, 1, "fetch", TRUE)}

\* files a client uploads: the images, an image over the size limit, and a
\* large file that is not an image
UploadFiles ==
    {UploadFile(TRUE, FALSE, it) : it \in UploadItems}
    \cup {UploadFile(TRUE, TRUE, RawItem(0, "local", HashD, 1, "none", TRUE)),
          UploadFile(FALSE, TRUE, RawItem(0, "local", HashD, 1, "fetch", TRUE))}

\* the oversized files are dropped like the non-image ones, and the rest of
\* the batch is ingested
RECURSIVE ingest_skip_oversized(_)
ingest_skip_oversized(files) ==
    IF files = <<>> THEN [raised |-> FALSE, references |-> <<>>]
    ELSE LET rest == ingest_skip_oversized(Tail(files))
         IN  IF ~Head(files).image \/ Head(files).oversized THEN rest
             ELSE [rest EXCEPT !.references = <<Head(files).item>> \o @]

\* adapters/local.py 18-49, LocalAdapter.ingest: non-image files are
\* skipped, an image over MAX_FILE_SIZE raises ValueError, the others become
\* raw reference dicts (ids are given by WithIds)
RECURSIVE ingest(_)
ingest(files) ==
    IF files = <<>> THEN [raised |-> FALSE, references |-> <<>>]
    ELSE IF ~Head(files).image THEN ingest(Tail(files))
    ELSE IF Head(files).oversized THEN [raised |-> TRUE, references |-> <<>>]
    ELSE LET rest == ingest(Tail(files))
         IN  [rest EXCEPT !.references = <<Head(files).item>> \o @]

\* upload_local_references, lines 193-195: get_session; the handler then
\* awaits LocalAdapter.ingest
UploadBegin(s, files) ==
    /\ handler = Idle
    /\ s \in DOMAIN sessions
    /\ uploads < MaxUploads
    /\ handler' = [op |-> "upload", pc |-> "received", session_id |-> s,
                   stats |-> sessions[s].stats, files |-> files,
                   raw_items |-> <<>>, existing |-> <<>>,
                   references |-> <<>>, duplicate_count |-> 0]
    /\ uploads' = uploads + 1
    /\ UNCHANGED <<sessions, refs, thumbs, next_id, run, actions>>
    /\ UNCHANGED rvars
    /\ UNCHANGED <<lvars, avars, pvars, hvars, cvars, wvars>>

\* lines 196-203: ingest raises (400), or returns nothing ("count 0"), or
\* returns the raw items and the baseline snapshot is taken
UploadIngest ==
    LET ingested == ingest(handler.files)
    IN  /\ handler.op = "upload"
        /\ handler.pc = "received"
        /\ \/ /\ ingested.raised
              /\ handler' = Idle
              /\ UNCHANGED next_id
           \/ /\ ~ingested.raised
              /\ ingested.references = <<>>
              /\ handler' = Idle
              /\ UNCHANGED next_id
           \/ /\ ~ingested.raised
              /\ ingested.references # <<>>
              /\ handler' = [handler EXCEPT
                    !.pc = "listed",
                    !.raw_items = WithIds(ingested.references, next_id),
                    !.existing = ExistingRefs(refs, handler.session_id)]
              /\ next_id' = next_id + Len(ingested.references)
        /\ UNCHANGED <<sessions, refs, thumbs, run, uploads, actions>>
        /\ UNCHANGED rvars
        /\ UNCHANGED <<lvars, avars, pvars, hvars, cvars, wvars>>

\* lines 204-213: process_raw_items with limit len(raw_items), then either
\* "count 0" or upsert_references
UploadResolve ==
    LET st == process_raw_items(handler.session_id, handler.raw_items,
                                Len(handler.raw_items), handler.existing, thumbs)
    IN  /\ handler.op = "upload"
        /\ handler.pc = "listed"
        /\ thumbs' = st.thumbs
        /\ \/ /\ st.processed = <<>>
              /\ handler' = Idle
              /\ UNCHANGED refs
           \/ /\ st.processed # <<>>
              /\ refs' = upsert_references(refs, st.processed)
              /\ handler' = [handler EXCEPT !.pc = "upserted",
                                            !.references = st.processed,
                                            !.duplicate_count = st.duplicates]
        /\ UNCHANGED <<sessions, next_id, run, uploads, actions>>
        /\ UNCHANGED rvars
        /\ UNCHANGED <<lvars, avars, pvars, hvars, cvars, wvars>>

\* lines 214-219: the statistics of the upload replace the session's
UploadStats ==
    /\ handler.op = "upload"
    /\ handler.pc = "upserted"
    /\ sessions' = update_session_stats(sessions, handler.session_id,
            [handler.stats EXCEPT
                !.found = Len(handler.raw_items),
                !.unique = Len(handler.references),
                !.dup_rate = DupRate(handler.duplicate_count, Len(handler.raw_items))])
    /\ handler' = Idle
    /\ UNCHANGED <<refs, thumbs, next_id, run, uploads, actions>>
    /\ UNCHANGED rvars
    /\ UNCHANGED <<lvars, avars, pvars, hvars, cvars, wvars>>

\* the last request and its answer: the operation, the (session id,
\* reference id) it names, the HTTP status (0: not answered yet) and the body
AnswerWith(op, session_id, reference_id, status, body) ==
    [op |-> op, session_id |-> session_id, reference_id |-> reference_id,
     status |-> status, body |-> body]

Answer(op, session_id, reference_id, status) ==
    AnswerWith(op, session_id, reference_id, status, <<>>)

NoAnswer == AnswerWith("none", None, 0, 0, <<>>)

\* ids a client can name: those of the rows it has listed
KnownIds == {refs[i].id : i \in 1..Len(refs)}

\* weights a select request carries: 2.0, and 2.5 (any float is accepted)
SelectWeights == {20, 25}

\* select_reference without a weight, lines 137-142
SelectReference(s, id) ==
    /\ handler = Idle
    /\ actions < MaxActions
    /\ actions' = actions + 1
    /\ refs' = update_reference_status(refs, s, id, "selected")
    /\ response' = Answer("select", s, id, IF HasReference(refs, s, id) THEN 200 ELSE 404)
    /\ UNCHANGED <<sessions, thumbs, next_id, run, handler, uploads>>
    /\ UNCHANGED rvars
    /\ UNCHANGED <<lvars, avars, pvars, hvars, feature_rows, cached_traits, wvars>>

\* select_reference with a weight: the status update, line 137 ...
SelectWithWeight(s, id, weight) ==
    /\ handler = Idle
    /\ actions < MaxActions
    /\ actions' = actions + 1
    /\ refs' = update_reference_status(refs, s, id, "selected")
    /\ handler' = IF HasReference(refs, s, id)
                   THEN [op |-> "select", session_id |-> s, reference_id |-> id,
                         weight |-> weight]
                   ELSE Idle
    /\ response' = Answer("select", s, id, IF HasReference(refs, s, id) THEN 0 ELSE 404)
    /\ UNCHANGED <<sessions, thumbs, next_id, run, uploads>>
    /\ UNCHANGED rvars
    /\ UNCHANGED <<lvars, avars, pvars, hvars, feature_rows, cached_traits, wvars>>

\* ... and the weight update, lines 140-141
SelectWeight ==
    /\ handler.op = "select"
    /\ refs' = update_reference_weight(refs, handler.session_id, handler.reference_id,
                                       handler.weight)
    /\ handler' = Idle
    /\ response' = [response EXCEPT !.status = 200]
    /\ UNCHANGED <<sessions, thumbs, next_id, run, uploads, actions>>
    /\ UNCHANGED rvars
    /\ UNCHANGED <<lvars, avars, pvars, hvars, feature_rows, cached_traits, wvars>>

\* hide_reference, lines 152-155
HideReference(s, id) ==
    /\ handler = Idle
    /\ actions < MaxActions
    /\ actions' = actions + 1
    /\ refs' = update_reference_status(refs, s, id, "hidden")
    /\ response' = Answer("hide", s, id, IF HasReference(refs, s, id) THEN 200 ELSE 404)
    /\ UNCHANGED <<sessions, thumbs, next_id, run, handler, uploads>>
    /\ UNCHANGED rvars
    /\ UNCHANGED <<lvars, avars, pvars, hvars, feature_rows, cached_traits, wvars>>

\* delete_reference, lines 165-168
DeleteReference(s, id) ==
    /\ handler = Idle
    /\ actions < MaxActions
    /\ actions' = actions + 1
    /\ refs' = update_reference_status(refs, s, id, "deleted")
    /\ response' = Answer("delete", s, id, IF HasReference(refs, s, id) THEN 200 ELSE 404)
    /\ UNCHANGED <<sessions, thumbs, next_id, run, handler, uploads>>
    /\ UNCHANGED rvars
    /\ UNCHANGED <<lvars, avars, pvars, hvars, feature_rows, cached_traits, wvars>>

\* line 181: 1.5 if weight == 1.0 else 2.0 if weight == 1.5 else 1.0
NextWeight(weight) == IF weight = 10 THEN 15 ELSE IF weight = 15 THEN 20 ELSE 10

\* star_reference: get_reference and the next weight, lines 178-181 ...
StarRead(s, id) ==
    /\ handler = Idle
    /\ actions < MaxActions
    /\ actions' = actions + 1
    /\ handler' = IF HasReference(refs, s, id)
                   THEN [op |-> "star", session_id |-> s, reference_id |-> id,
                         next_weight |-> NextWeight(get_reference(refs, s, id).weight)]
                   ELSE Idle
    /\ response' = Answer("star", s, id, IF HasReference(refs, s, id) THEN 0 ELSE 404)
    /\ UNCHANGED <<sessions, refs, thumbs, next_id, run, uploads>>
    /\ UNCHANGED rvars
    /\ UNCHANGED <<lvars, avars, pvars, hvars, feature_rows, cached_traits, wvars>>

\* the same step writing the whole row back with the default status
StarWrite_whole_row ==
    /\ handler.op = "star"
    /\ refs' = update_reference_status(
                   update_reference_weight(refs, handler.session_id, handler.reference_id,
                                           handler.next_weight),
                   handler.session_id, handler.reference_id, "result")
    /\ handler' = Idle
    /\ response' = [response EXCEPT !.status = 200, !.body = <<handler.next_weight>>]
    /\ UNCHANGED <<sessions, thumbs, next_id, run, uploads, actions>>
    /\ UNCHANGED rvars
    /\ UNCHANGED <<lvars, avars, pvars, hvars, feature_rows, cached_traits, wvars>>

\* ... and update_reference_weight, line 182
StarWrite ==
    /\ handler.op = "star"
    /\ refs' = update_reference_weight(refs, handler.session_id, handler.reference_id,
                                       handler.next_weight)
    /\ handler' = Idle
    /\ response' = [response EXCEPT !.status = 200, !.body = <<handler.next_weight>>]
    /\ UNCHANGED <<sessions, thumbs, next_id, run, uploads, actions>>
    /\ UNCHANGED rvars
    /\ UNCHANGED <<lvars, avars, pvars, hvars, feature_rows, cached_traits, wvars>>

\* ------------------------------------------------- the discovery service
RFrozen ==
    /\ r_items = <<>>
    /\ r_limit = 0
    /\ r_existing = <<>>
    /\ r_idx = 1
    /\ r_st = LoopStart(<<>>, <<>>)
    /\ r_pc = "returned"

\* no RateLimiter built, no acquire() call
LFrozen ==
    /\ clock = 0
    /\ limiter = <<>>
    /\ caller = <<>>

\* aggregate_traits has not been called
NotCalled == [pc |-> "idle", traits |-> <<>>]

\* aggregate_traits raised ValueError
ValueError == [pc |-> "raised", traits |-> <<>>]

\* aggregate_traits returned the traits
Return(traits) == [pc |-> "returned", traits |-> <<traits>>]

\* no aggregate_traits call
AFrozen ==
    /\ a_in = <<>>
    /\ a_out = NotCalled

\* build_master_prompt has not been called
Unbuilt == [pc |-> "idle", payload |-> <<>>]

\* no build_master_prompt call
PFrozen ==
    /\ p_in = None
    /\ p_out = Unbuilt

\* no hamming_distance call
HFrozen ==
    /\ h_in = <<>>
    /\ h_out = -1

\* no feature extracted, no traits cached, no request answered
CFrozen ==
    /\ feature_rows = <<>>
    /\ cached_traits = <<>>
    /\ response = NoAnswer

\* no other worker process
WFrozen == workers = <<>>

Init == SysStart /\ RFrozen /\ LFrozen /\ AFrozen /\ PFrozen /\ HFrozen /\ CFrozen /\ WFrozen

Next ==
    \/ \E s \in SessionIds, adapters \in AdapterChoices, limit \in 1..MaxLimit :
          CreateSession(s, adapters, limit)
    \/ CreateSchedule
    \/ \E s \in SessionIds : RunBegin(s)
    \/ \E s \in SessionIds : RunClientError(s)
    \/ \E s \in SessionIds :
          run[s].pc = "begun" /\
          \E outcome \in [Range(_build_adapters(run[s].adapters)) ->
                             UNION {SearchOutcomes(n, run[s].limit) :
                                      n \in Range(_build_adapters(run[s].adapters))}] :
              /\ \A n \in DOMAIN outcome : outcome[n] \in SearchOutcomes(n, run[s].limit)
              /\ RunSearch(s, outcome)
    \/ \E s \in SessionIds : RunFinish(s)
    \/ \E s \in SessionIds, files \in SeqsUpTo(UploadFiles, MaxFiles) \ {<<>>} :
          UploadBegin(s, files)
    \/ UploadIngest
    \/ UploadResolve
    \/ UploadStats
    \/ \E s \in SessionIds, id \in KnownIds : SelectReference(s, id)
    \/ \E s \in SessionIds, id \in KnownIds, w \in SelectWeights : SelectWithWeight(s, id, w)
    \/ SelectWeight
    \/ \E s \in SessionIds, id \in KnownIds : HideReference(s, id)
    \/ \E s \in SessionIds, id \in KnownIds : DeleteReference(s, id)
    \/ \E s \in SessionIds, id \in KnownIds : StarRead(s, id)
    \/ StarWrite

Spec == Init /\ [][Next]_vars

\* --------------------------------- specification of process_raw_items alone
RSession == "s1"

\* images an adapter can return: <<p_hash, quality level>>
Images ==
    {<<HashA, 2>>, <<HashB, 3>>, <<HashB, 1>>, <<HashC, 2>>, <<HashD, 1>>, <<HashE, 3>>}

\* candidate records: a well-formed one per image, two whose thumbnail cannot
\* be normalized or hashed, and one whose width is not an integer
RawPool ==
    {RawItem(0, "openverse", im[1], im[2], "none", TRUE) : im \in Images}
    \cup {RawItem(0, "generic", HashB, 2, "fetch", TRUE),
          RawItem(0, "generic", HashB, 2, "hash", TRUE),
          RawItem(0, "generic", HashB, 2, "none", FALSE)}


\* references a session can hold when a call starts (none deleted)
StoredRef(id, h, q, status) ==
    [Reference(id, RSession, "local", h, q) EXCEPT !.status = status]

Baselines ==
    {<<>>,
     <<StoredRef(1, HashA, 2, "selected")>>,
     <<StoredRef(1, HashA, 2, "result"), StoredRef(2, HashC, 1, "hidden")>>,
     <<StoredRef(1, HashC, 3, "result"), StoredRef(2, HashA, 1, "result")>>}

RInit ==
    /\ r_items \in {WithIds(s, 11) : s \in SeqsUpTo(RawPool, MaxItems)}
    /\ r_limit \in 0..MaxLimit
    /\ r_existing \in Baselines
    /\ r_idx = 1
    /\ r_st = LoopStart(r_existing, <<>>)
    /\ r_pc = "loop"
    /\ SysStart
    /\ LFrozen
    /\ AFrozen
    /\ PFrozen
    /\ HFrozen
    /\ CFrozen
    /\ WFrozen

RStep ==
    /\ r_pc = "loop"
    /\ r_idx <= Len(r_items)
    /\ r_st' = LoopBody(r_st, RSession, r_items[r_idx], r_limit)
    /\ r_idx' = r_idx + 1
    /\ r_pc' = IF r_st'.raised THEN "raised" ELSE "loop"
    /\ UNCHANGED <<r_items, r_limit, r_existing>>
    /\ UNCHANGED svars
    /\ UNCHANGED <<lvars, avars, pvars, hvars, cvars, wvars>>

RReturn ==
    /\ r_pc = "loop"
    /\ r_idx > Len(r_items)
    /\ r_pc' = "returned"
    /\ UNCHANGED <<r_items, r_limit, r_existing, r_idx, r_st>>
    /\ UNCHANGED svars
    /\ UNCHANGED <<lvars, avars, pvars, hvars, cvars, wvars>>

RNext == RStep \/ RReturn

SpecResolve == RInit /\ [][RNext]_vars

\* ------------------------------------------- claims on process_raw_items
\* the candidate the next loop iteration handles, and whether it gets as far
\* as the duplicate scan
RCandidate == r_items[r_idx]
RTaken == r_pc = "loop" /\ r_idx <= Len(r_items) /\ r_idx' = r_idx + 1
RScanned == RCandidate.fail = "none" /\ ReferenceValid(RCandidate)
RReference ==
    Reference(RCandidate.id, RSession, RCandidate.site, RCandidate.h, RCandidate.q)

\* positions of the baseline entries within Hamming distance 8 of hash h
Near(baseline, h) ==
    {i \in 1..Len(baseline) :
        hamming_distance(baseline[i].p_hash, h) <= DUP_DISTANCE}
\* the entry the scan stops at: the first one in baseline order
Matched(baseline, h) == CHOOSE i \in Near(baseline, h) : \A j \in Near(baseline, h) : i <= j

\* C1: a candidate within Hamming distance 8 of a baseline entry (the first
\* such entry in baseline order) is, when of strictly higher quality,
\* accepted under that entry's id while the entry leaves the baseline, and
\* is otherwise dropped with the baseline unchanged; either way the
\* duplicate counter grows by exactly one.
C1_ReplaceOrSkip ==
    [][(RTaken /\ RScanned /\ Near(r_st.baseline, RCandidate.h) # {}) =>
        LET m == Matched(r_st.baseline, RCandidate.h)
            entry == r_st.baseline[m]
            accepted == [RReference EXCEPT !.id = entry.id]
        IN  /\ r_st'.duplicates = r_st.duplicates + 1
            /\ RCandidate.q > entry.quality =>
                  /\ r_st'.processed = Append(r_st.processed, accepted)
                  /\ r_st'.baseline = Append(RemoveAt(r_st.baseline, m), accepted)
                  /\ \A i \in 1..Len(r_st'.baseline) : r_st'.baseline[i] # entry
            /\ RCandidate.q <= entry.quality =>
                  /\ r_st'.processed = r_st.processed
                  /\ r_st'.baseline = r_st.baseline
    ]_vars

\* a tie was skipped (first-seen wins), then a better duplicate replaced the
\* selected reference 1 under its id
C1_Witness ==
    /\ r_pc = "returned"
    /\ r_existing = <<StoredRef(1, HashA, 2, "selected")>>
    /\ Len(r_items) = 2
    /\ <<r_items[1].h, r_items[1].q, r_items[1].fail>> = <<HashA, 2, "none">>
    /\ <<r_items[2].h, r_items[2].q, r_items[2].fail>> = <<HashB, 3, "none">>
    /\ r_st.duplicates = 2
    /\ Len(r_st.processed) = 1
    /\ r_st.processed[1].id = 1
    /\ r_st.processed[1].p_hash = HashB

\* C2: from an empty baseline, [A, A'] (A' the lower-quality duplicate)
\* returns exactly the reference of A and duplicate_count 1, and [A', A]
\* returns exactly one reference, A's payload under the id of A', and
\* duplicate_count 1.
C2_PairResolution ==
    (/\ r_pc = "returned"
     /\ r_existing = <<>>
     /\ r_limit >= 1
     /\ Len(r_items) = 2
     /\ \A k \in 1..2 : r_items[k].fail = "none" /\ ReferenceValid(r_items[k])
     /\ hamming_distance(r_items[1].h, r_items[2].h) <= DUP_DISTANCE)
    =>
    LET first == Reference(r_items[1].id, RSession, r_items[1].site, r_items[1].h, r_items[1].q)
        second == Reference(r_items[2].id, RSession, r_items[2].site, r_items[2].h, r_items[2].q)
    IN  /\ r_items[2].q < r_items[1].q =>
            r_st.processed = <<first>> /\ r_st.duplicates = 1
        /\ r_items[2].q > r_items[1].q =>
            r_st.processed = <<[second EXCEPT !.id = first.id]>> /\ r_st.duplicates = 1

\* C3: at most limit candidates are accepted as new; a duplicate never
\* consumes the cap and is resolved (replace or skip) also after the cap is
\* reached; a non-duplicate is accepted while the cap is open and dropped
\* once it is reached.
C3_Cap ==
    [][(RTaken /\ RScanned) =>
        /\ r_st'.new_count <= r_limit
        /\ Near(r_st.baseline, RCandidate.h) # {} =>
              /\ r_st'.new_count = r_st.new_count
              /\ r_st'.duplicates = r_st.duplicates + 1
              /\ Len(r_st'.processed) - Len(r_st.processed) \in {0, 1}
        /\ Near(r_st.baseline, RCandidate.h) = {} =>
              /\ r_st'.duplicates = r_st.duplicates
              /\ r_st.new_count < r_limit =>
                    /\ r_st'.new_count = r_st.new_count + 1
                    /\ r_st'.processed = Append(r_st.processed, RReference)
                    /\ r_st'.baseline = Append(r_st.baseline, RReference)
              /\ r_st.new_count >= r_limit =>
                    /\ r_st'.new_count = r_st.new_count
                    /\ r_st'.processed = r_st.processed
                    /\ r_st'.baseline = r_st.baseline
    ]_vars

\* limit 1: A accepted, the distinct D dropped at the cap, then the better
\* duplicate B of A still resolved as a replace
C3_Witness ==
    /\ r_pc = "returned"
    /\ r_existing = <<>>
    /\ r_limit = 1
    /\ Len(r_items) = 3
    /\ <<r_items[1].h, r_items[2].h, r_items[3].h>> = <<HashA, HashD, HashB>>
    /\ <<r_items[1].q, r_items[3].q>> = <<2, 3>>
    /\ \A k \in 1..3 : r_items[k].fail = "none"
    /\ r_st.new_count = 1
    /\ r_st.duplicates = 1
    /\ Len(r_st.processed) = 2
    /\ r_st.processed[2].id = r_items[1].id
    /\ \A k \in 1..2 : r_st.processed[k].p_hash # HashD

\* the candidates of a list whose fetch, decoding, hashing and scoring succeed
RECURSIVE WithoutFailed(_)
WithoutFailed(items) ==
    IF items = <<>> THEN <<>>
    ELSE IF Head(items).fail # "none" THEN WithoutFailed(Tail(items))
    ELSE <<Head(items)>> \o WithoutFailed(Tail(items))

\* what the claim is about: accepted references, baseline and both counters
Outcome(st) == <<st.processed, st.baseline, st.duplicates, st.new_count, st.raised>>

\* C10: a candidate whose fetch, decoding, hashing or scoring fails is
\* skipped without aborting the batch: at every point of the loop the
\* accepted references, the baseline, the duplicate counter and the count
\* of new items are those of the same list without its failed candidates.
C10_FailedSkipped ==
    Outcome(r_st) =
        Outcome(process_raw_items(RSession, WithoutFailed(SubSeq(r_items, 1, r_idx - 1)),
                                  r_limit, r_existing, <<>>))

\* a failed candidate came first; later ones were accepted and deduplicated
C10_Witness ==
    /\ r_pc = "returned"
    /\ Len(r_items) = 3
    /\ r_items[1].fail = "hash"
    /\ r_items[2].fail = "none" /\ r_items[3].fail = "none"
    /\ r_st.duplicates = 1
    /\ Len(r_st.processed) = 1
    /\ r_st.new_count = 1

\* ------------------------------------------------ claims about the service
\* rows are never removed and an upsert keeps the rowid, so row i of the
\* table is the same reference id before and after every step
SameRows == \A i \in 1..Len(refs) : i <= Len(refs') /\ refs'[i].id = refs[i].id

\* a step of run_discovery or of upload_local_references that upserts
IngestStep ==
    \/ \E s \in SessionIds : run[s].pc = "begun" /\ run'[s].pc = "upserted"
    \/ handler.op = "upload" /\ handler'.op = "upload"

\* C4, as stated: the p_hash stored under a reference id never changes: in
\* every step, every stored row keeps its p_hash.
C4_HashImmutable ==
    [][\A i \in 1..Len(refs) : refs'[i].p_hash = refs[i].p_hash]_vars

\* C4, amended: the p_hash stored under a reference id is never unset and is
\* never changed by select, hide, delete or star; it changes only in the
\* upsert of a discovery run or local upload that replaces the row by a
\* higher-quality near-duplicate, and becomes that candidate's hash.
C4_HashChangesOnlyOnReplace ==
    [][/\ SameRows
       /\ \A i \in 1..Len(refs) :
             /\ refs'[i].p_hash # NoHash
             /\ refs'[i].p_hash # refs[i].p_hash =>
                   /\ IngestStep
                   /\ refs'[i].quality > refs[i].quality
                   /\ \E id \in DOMAIN thumbs' :
                         thumbs'[id] = <<refs'[i].p_hash, refs'[i].quality>>]_vars

\* a stored row whose hash is no longer that of the thumbnail first written
\* under its id: a replacement has happened, and a user action after it
C4_Witness ==
    \E i \in 1..Len(refs) :
        /\ refs[i].id \in DOMAIN thumbs
        /\ thumbs[refs[i].id][1] # refs[i].p_hash
        /\ refs[i].status = "selected"

\* C5: the status of a stored reference changes only in a select, hide or
\* delete request; no discovery run and no local upload changes it.
C5_StatusOnlyByUser ==
    [][\A i \in 1..Len(refs) :
          refs'[i].status # refs[i].status => actions' = actions + 1]_vars

\* C6: every stored weight is one of 1.0, 1.5, 2.0 (in tenths), and a star
\* request writes the successor of the weight it read along
\* 1.0 -> 1.5 -> 2.0 -> 1.0.
C6_WeightInCycle ==
    /\ \A i \in 1..Len(refs) : refs[i].weight \in {10, 15, 20}
    /\ handler.op = "star" => handler.next_weight \in {10, 15, 20}

\* C7: a session is created idle, and its status only ever changes along
\* idle -> fetching, fetching -> ready and fetching -> error; ready and
\* error are final.
C7_StatusTransitions ==
    [][/\ \A s \in DOMAIN sessions' \ DOMAIN sessions : sessions'[s].status = "idle"
       /\ \A s \in DOMAIN sessions :
             /\ s \in DOMAIN sessions'
             /\ sessions'[s].status # sessions[s].status =>
                   <<sessions[s].status, sessions'[s].status>> \in
                       {<<"idle", "fetching">>, <<"fetching", "ready">>,
                        <<"fetching", "error">>}]_vars

\* both final statuses are reached, one of them after a local upload
C7_Witness ==
    \E s \in DOMAIN sessions : sessions[s].status = "error" /\ uploads = 1

\* dup_rate as a fraction within [0, 1]
RateInUnit(rate) == rate[2] > 0 /\ 0 <= rate[1] /\ rate[1] <= rate[2]

\* C8: the step that sets a session ready comes after the step that
\* persisted the run's stats (found = pooled candidates, dup_rate =
\* duplicate_count / found, 0 when found = 0); a ready session never shows
\* the pre-run stats of a run that pooled candidates; every recorded
\* dup_rate lies in [0, 1].
C8_StatsBeforeReady ==
    [][\A s \in DOMAIN sessions' :
          /\ RateInUnit(sessions'[s].stats.dup_rate)
          /\ s \in DOMAIN sessions =>
                /\ (run[s].pc = "upserted" /\ run'[s].pc = "finishing") =>
                      /\ sessions'[s].status = "fetching"
                      /\ sessions'[s].stats.found = Len(run[s].aggregated)
                      /\ sessions'[s].stats.unique = Len(run[s].references)
                      /\ sessions'[s].stats.dup_rate =
                            (IF Len(run[s].aggregated) = 0 THEN <<0, 1>>
                             ELSE <<run[s].duplicate_count, Len(run[s].aggregated)>>)
                /\ (sessions'[s].status = "ready" /\ sessions[s].status # "ready") =>
                      /\ run[s].pc = "finishing"
                      /\ uploads = 0 => sessions'[s].stats.found = Len(run[s].aggregated)]_vars

\* a ready session whose run pooled two candidates, one a duplicate
C8_Witness ==
    \E s \in DOMAIN sessions :
        /\ sessions[s].status = "ready"
        /\ sessions[s].stats.found = 2
        /\ sessions[s].stats.dup_rate = <<1, 2>>

\* the candidates of one adapter among the pooled ones, ids aside
FromAdapter(aggregated, n) ==
    LET OfN(item) == item.site = n
        sub == SelectSeq(aggregated, OfN)
    IN  [k \in 1..Len(sub) |-> [sub[k] EXCEPT !.id = 0]]

\* C9: after the searches of a run, an adapter whose search raised has
\* contributed no candidate, the results of every other adapter are pooled
\* and resolved, and (no candidate record being invalid) the session is on
\* its way to ready and ends ready, not error.
C9_FailedAdapterTolerated ==
    \A s \in DOMAIN sessions :
        (run[s].pc \in {"upserted", "finishing", "done"} /\ DOMAIN run[s].outcome # {}) =>
            /\ DOMAIN run[s].outcome = Range(_build_adapters(run[s].adapters))
            /\ \A n \in DOMAIN run[s].outcome :
                  FromAdapter(run[s].aggregated, n) =
                      IF run[s].outcome[n].raised THEN <<>> ELSE run[s].outcome[n].results
            /\ (\A k \in 1..Len(run[s].aggregated) : ReferenceValid(run[s].aggregated[k])) =>
                  /\ sessions[s].status # "error"
                  /\ run[s].pc = "done" => sessions[s].status = "ready"
                  /\ run[s].references =
                        process_raw_items(s, run[s].aggregated, run[s].limit,
                                          run[s].existing, <<>>).processed

\* a finished, ready session one of whose adapters raised while the result
\* of the other was stored
C9_Witness ==
    \E s \in DOMAIN sessions :
        /\ run[s].pc = "done"
        /\ sessions[s].status = "ready"
        /\ \E n, m \in DOMAIN run[s].outcome :
              /\ run[s].outcome[n].raised
              /\ ~run[s].outcome[m].raised
              /\ run[s].outcome[m].results # <<>>
        /\ run[s].references # <<>>

\* ------------------ specification of a session fed by uploads of three files
\* quality levels of the two near-identical images of a batch
PairQualities == {<<2, 3>>, <<3, 2>>, <<2, 2>>}

\* the orders of three files
Orders == {p \in [1..3 -> 1..3] : \A i, j \in 1..3 : p[i] = p[j] => i = j}

\* three images: two near-identical (HashA, HashB: 8 bits apart) and a
\* distinct one, in every order
ThreeImages ==
    {[k \in 1..3 |->
         <<RawItem(0, "local", HashA, q[1], "none", TRUE),
           RawItem(0, "local", HashB, q[2], "none", TRUE),
           RawItem(0, "local", HashD, 1, "none", TRUE)>>[p[k]]] :
       p \in Orders, q \in PairQualities}

\* upload batches: the three images; the three images one of which is over
\* the size limit; a single file Pillow cannot decode; a single file that is
\* not an image
LocalBatches ==
    {[k \in 1..3 |-> UploadFile(TRUE, FALSE, b[k])] : b \in ThreeImages}
    \cup {[k \in 1..3 |-> UploadFile(TRUE, k = big, b[k])] :
             b \in ThreeImages, big \in 1..3}
    \cup {<<UploadFile(TRUE, FALSE, RawItem(0, "local", HashD, 1, "fetch", TRUE))>>,
          <<UploadFile(FALSE, FALSE, RawItem(0, "local", HashD, 1, "fetch", TRUE))>>}

\* the service with create_discovery_session, the background run and
\* upload_local_references, no select / hide / delete / star request
LocalNext ==
    \/ \E s \in SessionIds, adapters \in AdapterChoices, limit \in 1..MaxLimit :
          CreateSession(s, adapters, limit)
    \/ CreateSchedule
    \/ \E s \in SessionIds : RunBegin(s)
    \/ \E s \in SessionIds : RunClientError(s)
    \/ \E s \in SessionIds :
          run[s].pc = "begun" /\
          \E outcome \in [Range(_build_adapters(run[s].adapters)) ->
                             UNION {SearchOutcomes(n, run[s].limit) :
                                      n \in Range(_build_adapters(run[s].adapters))}] :
              /\ \A n \in DOMAIN outcome : outcome[n] \in SearchOutcomes(n, run[s].limit)
              /\ RunSearch(s, outcome)
    \/ \E s \in SessionIds : RunFinish(s)
    \/ \E s \in SessionIds, files \in LocalBatches : UploadBegin(s, files)
    \/ UploadIngest
    \/ UploadResolve
    \/ UploadStats

SpecLocal == Init /\ [][LocalNext]_vars

\* C11: in a session created with adapters ["local"], once the background
\* run and one upload of three images, two of them near-duplicates, have
\* both completed, the session stats show unique = 2 and dup_rate = 1/3.
C11_LocalUploadStats ==
    \A s \in DOMAIN sessions :
        (/\ sessions[s].adapters = <<"local">>
         /\ run[s].pc = "done"
         /\ uploads = 1
         /\ handler = Idle
         /\ Len(refs) >= 2) =>
            /\ sessions[s].stats.unique = 2
            /\ sessions[s].stats.dup_rate = <<1, 3>>

\* the batch the upload handler is about to ingest holds an image file over
\* the size limit
OversizedBatch ==
    /\ handler.op = "upload"
    /\ handler.pc = "received"
    /\ \E k \in 1..Len(handler.files) :
          handler.files[k].image /\ handler.files[k].oversized

\* C14: when a batch holds an image file larger than 8 MiB, wherever it
\* stands, the upload handler ends at once with an error and leaves no
\* trace: no reference row, no thumbnail, the session rows unchanged.
C14_OversizedRejected ==
    [][(OversizedBatch /\ handler' # handler) =>
          /\ handler' = Idle
          /\ ingest(handler.files).raised
          /\ refs' = refs
          /\ thumbs' = thumbs
          /\ sessions' = sessions]_vars

\* the handler is about to ingest a batch of three images whose last file
\* is the oversized one, after the run of the session has finished
C14_Witness ==
    /\ OversizedBatch
    /\ Len(handler.files) = 3
    /\ handler.files[3].oversized
    /\ ~handler.files[1].oversized
    /\ run[handler.session_id].pc = "done"

\* ----------------------------------------------- service.py RateLimiter
\* the discovery runs in progress; each builds its own RateLimiter (line 167)
Runs == {"r1", "r2"}

\* the acquire() calls: call k of the requests of a run
Callers == Runs \X (1..MaxRequests)

\* values of DISCOVERY_RPS (requests per second); 0 disables limiting
Rates == {0, 1}

\* RateLimiter.__init__: rate, unlocked, _last_ts = 0.0; lock is the set of
\* callers inside the async with
RateLimiter(rate) == [rate |-> IF rate > 0 THEN rate ELSE 0, lock |-> {}, last_ts |-> 0]

\* min_interval = 1.0 / self.rate, in ticks
min_interval(rate) == Second \div rate

\* an acquire() call: where it is, when its sleep ends, when it returned
Call(pc, wake, returned) == [pc |-> pc, wake |-> wake, returned |-> returned]

\* the async with of line 36 is missing: the check-and-update is not guarded
LockFree_unguarded(l) == l.lock = {} \/ l.lock # {}

\* asyncio.Lock: free when nobody is inside the async with
LockFree(l) == l.lock = {}

LInit ==
    /\ SysStart
    /\ RFrozen
    /\ AFrozen
    /\ PFrozen
    /\ HFrozen
    /\ CFrozen
    /\ WFrozen
    /\ clock = 0
    /\ \E rate \in Rates : limiter = [r \in Runs |-> RateLimiter(rate)]
    /\ caller = [c \in Callers |-> Call("idle", 0, -1)]

\* lines 33-35: a request hook calls acquire(); rate <= 0 returns at once
AcquireCall(c) ==
    /\ caller[c].pc = "idle"
    /\ \/ /\ limiter[c[1]].rate <= 0
          /\ caller' = [caller EXCEPT ![c] = Call("done", 0, clock)]
       \/ /\ limiter[c[1]].rate > 0
          /\ caller' = [caller EXCEPT ![c] = Call("lock", 0, -1)]
    /\ UNCHANGED <<clock, limiter>>
    /\ UNCHANGED <<rvars, svars, avars, pvars, hvars, cvars, wvars>>

\* lines 36-42 up to the first await: enter the lock, read the clock, then
\* either start the sleep or update _last_ts, leave the lock and return
AcquireEnter(c) ==
    LET l == limiter[c[1]]
        now == clock
        wait_for == l.last_ts + min_interval(l.rate) - now
    IN  /\ caller[c].pc = "lock"
        /\ LockFree(l)
        /\ \/ /\ wait_for > 0
              /\ limiter' = [limiter EXCEPT ![c[1]].lock = {c}]
              /\ caller' = [caller EXCEPT ![c] = Call("sleep", now + wait_for, -1)]
           \/ /\ wait_for <= 0
              /\ limiter' = [limiter EXCEPT
                    ![c[1]].last_ts = Max(now, l.last_ts + min_interval(l.rate)),
                    ![c[1]].lock = {}]
              /\ caller' = [caller EXCEPT ![c] = Call("done", 0, now)]
        /\ UNCHANGED clock
        /\ UNCHANGED <<rvars, svars, avars, pvars, hvars, cvars, wvars>>

\* lines 40-42: asyncio.sleep is over, the clock is read again, _last_ts is
\* updated, the lock is left and acquire() returns
AcquireWake(c) ==
    LET l == limiter[c[1]]
        now == clock
    IN  /\ caller[c].pc = "sleep"
        /\ clock >= caller[c].wake
        /\ limiter' = [limiter EXCEPT
              ![c[1]].last_ts = Max(now, l.last_ts + min_interval(l.rate)),
              ![c[1]].lock = {}]
        /\ caller' = [caller EXCEPT ![c] = Call("done", 0, now)]
        /\ UNCHANGED clock
        /\ UNCHANGED <<rvars, svars, avars, pvars, hvars, cvars, wvars>>

\* time passes
Tick ==
    /\ clock < MaxClock
    /\ clock' = clock + 1
    /\ UNCHANGED <<limiter, caller>>
    /\ UNCHANGED <<rvars, svars, avars, pvars, hvars, cvars, wvars>>

LNext ==
    \/ \E c \in Callers : AcquireCall(c)
    \/ \E c \in Callers : AcquireEnter(c)
    \/ \E c \in Callers : AcquireWake(c)
    \/ Tick

SpecLimiter == LInit /\ [][LNext]_vars

\* the acquire() calls that have returned
Returned == {c \in Callers : caller[c].returned >= 0}

\* the distance of two instants
Apart(t, u) == IF t >= u THEN t - u ELSE u - t

\* C12: with rate R > 0, any two acquire() calls on one RateLimiter return
\* at least 1/R apart, whatever the interleaving of the callers, so N calls
\* end no earlier than (N-1)/R after the first return.
C12_ReturnsSpaced ==
    \A r \in Runs :
        limiter[r].rate > 0 =>
            /\ \A c, d \in Returned :
                  (c # d /\ c[1] = r /\ d[1] = r) =>
                      Apart(caller[c].returned, caller[d].returned)
                          >= min_interval(limiter[r].rate)
            /\ \A c, d \in Returned :
                  (c[1] = r /\ d[1] = r /\
                   \A e \in Returned : e[1] = r =>
                       (caller[c].returned <= caller[e].returned
                        /\ caller[e].returned <= caller[d].returned)) =>
                      caller[d].returned - caller[c].returned >=
                          (Cardinality({e \in Returned : e[1] = r}) - 1)
                              * min_interval(limiter[r].rate)

\* every call on one limiter has returned, one of them after waiting for the
\* lock while another caller slept inside it
C12_Witness ==
    /\ limiter["r1"].rate > 0
    /\ \A c \in Callers : c[1] = "r1" => c \in Returned
    /\ \E c \in Returned : c[1] = "r1" /\ caller[c].returned >= 2 * min_interval(limiter["r1"].rate)

\* C13: any two outbound requests of the discovery service, also those of
\* two runs of different sessions, are dispatched at least 1/rate apart.
C13_GlobalInterval ==
    \A c, d \in Returned :
        (c # d /\ limiter[c[1]].rate > 0) =>
            Apart(caller[c].returned, caller[d].returned)
                >= min_interval(limiter[c[1]].rate)

\* ------------------------------------------------------ aggregator.py
\* models.py Feature.  Floats are exact decimals: line_weight,
\* outline_clarity, symmetry and brand_risk in hundredths; a palette entry is
\* <<colour, weight in tenths>>, a colour an <<r, g, b>> triple.
TypographyFeature(present, style) == [present |-> present, style |-> style]

CompositionFeature(centered, symmetry, grid) ==
    [centered |-> centered, symmetry |-> symmetry, grid |-> grid]

Feature(palette, line_weight, outline_clarity, typography, motifs, composition, brand_risk) ==
    [palette |-> palette, line_weight |-> line_weight,
     outline_clarity |-> outline_clarity, typography |-> typography,
     motifs |-> motifs, composition |-> composition, brand_risk |-> brand_risk]

\* sum of f[i] over the indices of a sequence
RECURSIVE SumSeq(_)
SumSeq(f) == IF f = <<>> THEN 0 ELSE Head(f) + SumSeq(Tail(f))

\* sorted(values, key=lambda item: item[0]): stable insertion by value
RECURSIVE InsertByValue(_, _)
InsertByValue(sorted, item) ==
    IF sorted = <<>> THEN <<item>>
    ELSE IF item[1] < Head(sorted)[1] THEN <<item>> \o sorted
    ELSE <<Head(sorted)>> \o InsertByValue(Tail(sorted), item)

RECURSIVE SortByValue(_)
SortByValue(values) ==
    IF values = <<>> THEN <<>>
    ELSE InsertByValue(SortByValue(SubSeq(values, 1, Len(values) - 1)),
                       values[Len(values)])

\* lines 27-43: the trimming loop over the sorted <<value, weight>> pairs
RECURSIVE TrimLoop(_, _, _, _, _)
TrimLoop(sorted_values, i, accumulated, lower_cut, upper_cut) ==
    IF i > Len(sorted_values) THEN <<>>
    ELSE LET value == sorted_values[i][1]
             weight == sorted_values[i][2]
             next_acc == accumulated + weight
             cut_low == IF accumulated < lower_cut THEN lower_cut - accumulated ELSE 0
             cut_high == IF next_acc > upper_cut THEN next_acc - upper_cut ELSE 0
             effective_weight == weight - cut_low - cut_high
         IN  IF next_acc <= lower_cut
             THEN TrimLoop(sorted_values, i + 1, next_acc, lower_cut, upper_cut)
             ELSE (IF effective_weight > 0 THEN <<<<value, effective_weight>>>> ELSE <<>>)
                  \o (IF next_acc >= upper_cut THEN <<>>
                      ELSE TrimLoop(sorted_values, i + 1, next_acc, lower_cut, upper_cut))

\* lines 44-50: the first value at which the running weight reaches half.
\* When it equals half exactly, the float comparison of line 48 can go
\* either way (the trimmed weights carry rounding errors): tie_up says it
\* came out false.
RECURSIVE MedianLoop(_, _, _, _, _)
MedianLoop(trimmed, i, running, twice_half, tie_up) ==
    IF i > Len(trimmed) THEN trimmed[Len(trimmed)][1]
    ELSE LET now == running + trimmed[i][2]
         IN  IF 2 * now > twice_half \/ (2 * now = twice_half /\ ~tie_up)
             THEN trimmed[i][1]
             ELSE MedianLoop(trimmed, i + 1, now, twice_half, tie_up)

\* the trimmed pairs of a value list; weights are scaled by 10 so that the
\* cuts total * 0.1 and total * 0.9 are integers
Trimmed(values) ==
    LET scaled == [k \in 1..Len(values) |-> <<values[k][1], 10 * values[k][2]>>]
        total_weight == SumSeq([k \in 1..Len(values) |-> values[k][2]])
    IN  TrimLoop(SortByValue(scaled), 1, 0, total_weight, 9 * total_weight)

\* _weighted_trimmed_median(values, trim_ratio=0.1)
_weighted_trimmed_median(values, tie_up) ==
    IF values = <<>> THEN 0
    ELSE IF SumSeq([k \in 1..Len(values) |-> values[k][2]]) = 0 THEN 0
    ELSE LET trimmed == Trimmed(values)
         IN  MedianLoop(trimmed, 1, 0,
                        SumSeq([k \in 1..Len(trimmed) |-> trimmed[k][2]]), tie_up)

\* the bounds of lines 108 and 110 are exclusive
_map_line_weight_exclusive(value) ==
    IF value < 33 THEN "thin" ELSE IF value < 66 THEN "regular" ELSE "bold"

\* _map_line_weight, value in hundredths
_map_line_weight(value) ==
    IF value <= 33 THEN "thin" ELSE IF value <= 66 THEN "regular" ELSE "bold"

\* _map_outline
_map_outline(value) == IF value >= 55 THEN "clean" ELSE "rough"

\* what one pass over the iterable yields.  aggregate_traits hands the two
\* hint builders a generator expression (lines 243, 247): its first pass
\* yields every pair, every later pass nothing.
GeneratorPass(features, pass) == IF pass = 1 THEN features ELSE <<>>

\* sum(weight for _, weight in pass if keep(feature))
WeightOf(pass, Keep(_)) ==
    SumSeq([k \in 1..Len(pass) |-> IF Keep(pass[k][1]) THEN pass[k][2] ELSE 0])

\* the styles of the features with typography, in order of first appearance
RECURSIVE StylesSeen(_)
StylesSeen(pass) ==
    IF pass = <<>> THEN <<>>
    ELSE LET before == StylesSeen(SubSeq(pass, 1, Len(pass) - 1))
             feature == pass[Len(pass)][1]
             style == IF feature.typography.style = None THEN "mixed"
                      ELSE feature.typography.style
         IN  IF ~feature.typography.present THEN before
             ELSE IF \E k \in 1..Len(before) : before[k] = style THEN before
             ELSE Append(before, style)

\* lines 133-144: the phrase of a style
StyleHint(style) ==
    IF style = "rounded" THEN "rounded lettering accents"
    ELSE IF style = "block" THEN "confident block typography"
    ELSE IF style = "script" THEN "script-like calligraphy"
    ELSE IF style = "outline" THEN "outline lettering details"
    ELSE "mixed typography flourishes"

\* Counter.most_common(): by count, largest first, ties in insertion
\* order; counts[k] is the count of keys[k]
RECURSIVE MostCommon(_, _)
MostCommon(keys, counts) ==
    IF keys = <<>> THEN <<>>
    ELSE LET best == CHOOSE k \in 1..Len(keys) :
                        /\ \A j \in 1..Len(keys) : counts[j] <= counts[k]
                        /\ \A j \in 1..(k - 1) : counts[j] < counts[k]
         IN  <<keys[best]>> \o MostCommon(RemoveAt(keys, best), RemoveAt(counts, best))

\* _build_typography_hints; weights are in hundredths (reference weight in
\* tenths times the trait factor in tenths)
_build_typography_hints(features) ==
    LET Every(feature) == TRUE
        Present(feature) == feature.typography.present
        total_weight == WeightOf(GeneratorPass(features, 1), Every)
        present_weight == WeightOf(GeneratorPass(features, 2), Present)
        third == GeneratorPass(features, 3)
        StyleWeight(style) ==
            SumSeq([k \in 1..Len(third) |->
                      IF third[k][1].typography.present
                         /\ (IF third[k][1].typography.style = None THEN "mixed"
                             ELSE third[k][1].typography.style) = style
                      THEN third[k][2] ELSE 0])
        styles == StylesSeen(third)
        ordered == MostCommon(styles, [k \in 1..Len(styles) |-> StyleWeight(styles[k])])
    IN  IF total_weight = 0 THEN <<>>
        ELSE IF 10 * present_weight < 3 * total_weight THEN <<>>
        ELSE [k \in 1..Len(ordered) |-> StyleHint(ordered[k])]

\* _build_composition_hints
_build_composition_hints(features) ==
    LET Every(feature) == TRUE
        Centered(feature) == feature.composition.centered
        Grid(feature) == feature.composition.grid
        total_weight == WeightOf(GeneratorPass(features, 1), Every)
        centered_weight == WeightOf(GeneratorPass(features, 2), Centered)
        grid_weight == WeightOf(GeneratorPass(features, 3), Grid)
        fourth == GeneratorPass(features, 4)
        symmetry_sum == SumSeq([k \in 1..Len(fourth) |->
                                  fourth[k][1].composition.symmetry * fourth[k][2]])
    IN  IF total_weight = 0 THEN <<>>
        ELSE (IF 2 * centered_weight >= total_weight THEN <<"centered">> ELSE <<>>)
             \o (IF symmetry_sum >= 65 * total_weight
                 THEN <<"symmetrical balance">> ELSE <<>>)
             \o (IF 10 * grid_weight >= 4 * total_weight THEN <<"subtle lattice">> ELSE <<>>)

\* line 205: [tag for tag in feature.motifs if tag]
MotifTags(feature) ==
    LET NonEmpty(tag) == tag # ""
    IN  SelectSeq(feature.motifs, NonEmpty)

\* lines 202-207: the <<feature, weight>> pairs the motif loop counts
CountedFeatures(features) ==
    LET Counted(pair) == pair[1].brand_risk <= 60 /\ MotifTags(pair[1]) # <<>>
    IN  SelectSeq(features, Counted)

\* Counter(tags)[tag]
CountIn(tags, tag) == Cardinality({k \in 1..Len(tags) : tags[k] = tag})

\* the keys of a Counter fed the tags in this order: first appearances
RECURSIVE Distinct(_)
Distinct(tags) ==
    IF tags = <<>> THEN <<>>
    ELSE LET before == Distinct(SubSeq(tags, 1, Len(tags) - 1))
         IN  IF \E k \in 1..Len(before) : before[k] = tags[Len(tags)] THEN before
             ELSE Append(before, tags[Len(tags)])

RECURSIVE AllTags(_)
AllTags(counted) ==
    IF counted = <<>> THEN <<>> ELSE MotifTags(Head(counted)[1]) \o AllTags(Tail(counted))

RECURSIVE ProductSeq(_)
ProductSeq(f) == IF f = <<>> THEN 1 ELSE Head(f) * ProductSeq(Tail(f))

\* math.log(n) in hundredths
LnCenti(n) == <<0, 69, 110, 139, 161, 179, 195, 208, 220, 230>>[n]

\* the floor of lines 222-224 is missing
Frequent_unfiltered(motif_count, total_tag_weight) ==
    total_tag_weight > 0 \/ motif_count >= 0

\* lines 222-224: freq_ratio >= 0.08, freq_ratio being 0.0 without weight
Frequent(motif_count, total_tag_weight) ==
    /\ total_tag_weight > 0
    /\ 100 * motif_count >= 8 * total_tag_weight

\* lines 196-227: the motif list; the weight of a pair is the reference
\* weight times the motifs factor
AggregateMotifs(features) ==
    LET counted == CountedFeatures(features)
        Tags(c) == MotifTags(counted[c][1])
        keys == Distinct(AllTags(counted))
        doc_total == Len(counted)
        scale == ProductSeq([c \in 1..Len(counted) |-> Len(Tags(c))])
        total_tag_weight ==
            SumSeq([c \in 1..Len(counted) |-> counted[c][2] * Len(Tags(c))])
        motif_counter(tag) ==
            SumSeq([c \in 1..Len(counted) |-> counted[c][2] * CountIn(Tags(c), tag)])
        doc_freq(tag) ==
            Cardinality({c \in 1..Len(counted) : CountIn(Tags(c), tag) > 0})
        \* tfidf[tag], times scale
        tfidf(tag) ==
            SumSeq([c \in 1..Len(counted) |->
                      CountIn(Tags(c), tag) * counted[c][2] * (scale \div Len(Tags(c)))])
        idf(tag) == LnCenti(doc_total + 1) - LnCenti(doc_freq(tag) + 1) + 100
        Kept(tag) == Frequent(motif_counter(tag), total_tag_weight)
        scored == SelectSeq(keys, Kept)
        ranked == MostCommon(scored, [k \in 1..Len(scored) |->
                                         tfidf(scored[k]) * idf(scored[k])])
    IN  SubSeq(ranked, 1, Min(12, Len(ranked)))

\* PaletteColor: hex is what the entry shows, weight a fraction <<n, d>>
PaletteColor(hex, weight) == [hex |-> hex, weight |-> weight]

\* the k-th smallest element of a sequence of numbers
Kth(vals, k) ==
    CHOOSE v \in Range(vals) :
        /\ Cardinality({i \in 1..Len(vals) : vals[i] < v}) < k
        /\ Cardinality({i \in 1..Len(vals) : vals[i] <= v}) >= k

\* twice np.median(vals)
Median2(vals) ==
    IF Len(vals) % 2 = 1 THEN 2 * Kth(vals, (Len(vals) + 1) \div 2)
    ELSE Kth(vals, Len(vals) \div 2) + Kth(vals, Len(vals) \div 2 + 1)

\* lines 59-61: |arr - med| <= 2.5 * mad in every channel (the 1e-6 added
\* to mad matters only when mad is 0, where it admits the points at med)
OutlierMask(colors) ==
    LET med2 == [ch \in 1..3 |-> Median2([k \in 1..Len(colors) |-> colors[k][ch]])]
        dev2 == [ch \in 1..3 |-> [k \in 1..Len(colors) |->
                    IF 2 * colors[k][ch] >= med2[ch] THEN 2 * colors[k][ch] - med2[ch]
                    ELSE med2[ch] - 2 * colors[k][ch]]]
        mad2 == [ch \in 1..3 |-> Median2(dev2[ch])]
    IN  [k \in 1..Len(colors) |-> \A ch \in 1..3 : 4 * dev2[ch][k] <= 5 * mad2[ch]]

\* lines 56-66: the points and weights the clustering works on; weights in
\* millionths, np.clip(w, 1e-6, None) on the masked path only
Clustered(colors, weights) ==
    LET mask == OutlierMask(colors)
        Keep(k) == mask[k]
        idx == SelectSeq([k \in 1..Len(colors) |-> k], Keep)
    IN  IF idx = <<>>
        THEN [arr |-> colors, w |-> weights]
        ELSE [arr |-> [k \in 1..Len(idx) |-> colors[idx[k]]],
              w |-> [k \in 1..Len(idx) |-> Max(weights[idx[k]], 1)]]

\* cluster_count, line 68
ClusterCount(colors, weights, size) == Min(Len(Clustered(colors, weights).arr), size)

\* line 55: [PaletteColor(hex="#FFFFFF", weight=1.0)] * size
EmptyPalette(size) == [k \in 1..size |-> PaletteColor("#FFFFFF", <<1, 1>>)]

\* _aggregate_palette(colors, weights, size).  labels is the cluster each
\* point ends in after the k-means iterations of lines 67-83, whose
\* arithmetic is not modelled: any assignment of the points to the
\* cluster_count clusters that gives equal colours the same cluster (line
\* 72, argmin over equal rows).  The hex of a cluster is its index.
_aggregate_palette(colors, weights, size, labels) ==
    IF colors = <<>> THEN EmptyPalette(size)
    ELSE LET clustered == Clustered(colors, weights)
             arr == clustered.arr
             w == clustered.w
             cluster_count == Min(Len(arr), size)
             cluster_weights == [idx \in 1..cluster_count |->
                 SumSeq([k \in 1..Len(arr) |-> IF labels[k] = idx THEN w[k] ELSE 0])]
             sum == SumSeq(cluster_weights)
             total == IF sum = 0 THEN 1 ELSE sum
             order == MostCommon([idx \in 1..cluster_count |-> idx], cluster_weights)
             palette == [k \in 1..cluster_count |->
                            PaletteColor(order[k], <<cluster_weights[order[k]], total>>)]
             padded == palette \o [k \in 1..(size - Len(palette)) |->
                                      PaletteColor(palette[1].hex, <<0, 1>>)]
         IN  SubSeq(padded, 1, size)

\* line 69: rng.choice(..., replace=False, p=...) raises ValueError when fewer
\* than cluster_count of the probabilities are positive
ChoiceRaises(colors, weights, size) ==
    /\ colors # <<>>
    /\ LET clustered == Clustered(colors, weights)
       IN  Cardinality({k \in 1..Len(clustered.arr) : clustered.w[k] > 0})
              < Min(Len(clustered.arr), size)

\* a selected reference as aggregate_traits sees it: its weight (tenths) and
\* the Feature features_by_ref holds for its id, if any
SelectedRef(weight, has_feature, feature) ==
    [weight |-> weight, has_feature |-> has_feature, feature |-> feature]

\* the weights argument: the factor of each trait, in tenths; weights=None
\* is 1.0 throughout
TraitFactors(palette, motifs, line, type, comp) ==
    [palette |-> palette, motifs |-> motifs, line |-> line, type |-> type, comp |-> comp]

Unweighted == TraitFactors(10, 10, 10, 10, 10)

\* models.py DatasetTraits (session_id and audience_modes are passed through)
DatasetTraits(palette, motifs, line_weight, outline, typography, composition) ==
    [palette |-> palette, motifs |-> motifs, line_weight |-> line_weight,
     outline |-> outline, typography |-> typography, composition |-> composition]

\* lines 176-182: the <<feature, weight>> pairs, weight = max(ref.weight, 0.5)
FeaturePairs(selected_refs) ==
    LET Has(ref) == ref.has_feature
        with == SelectSeq(selected_refs, Has)
    IN  [k \in 1..Len(with) |-> <<with[k].feature, Max(with[k].weight, 5)>>]

\* lines 189-193: the colours of all palettes and their contributions
\* entry.weight * ref_weight * palette_weight_factor, in millionths
RECURSIVE PaletteEntries(_, _)
PaletteEntries(features, factor) ==
    IF features = <<>> THEN <<>>
    ELSE [k \in 1..Len(Head(features)[1].palette) |->
             <<Head(features)[1].palette[k][1],
               Head(features)[1].palette[k][2] * Head(features)[2] * factor * 1000>>]
         \o PaletteEntries(Tail(features), factor)

\* the pairs with their weight multiplied by a trait factor
Scaled(features, factor) ==
    [k \in 1..Len(features) |-> <<features[k][1], features[k][2] * factor>>]

\* the assignments of points to clusters the k-means loop can end with
Labelings(selected_refs, weights) ==
    LET entries == PaletteEntries(FeaturePairs(selected_refs), weights.palette)
        colors == [k \in 1..Len(entries) |-> entries[k][1]]
        w == [k \in 1..Len(entries) |-> entries[k][2]]
        arr == Clustered(colors, w).arr
    IN  IF entries = <<>> THEN {<<>>}
        ELSE {[k \in 1..Len(arr) |-> nearest[arr[k]]] :
                 nearest \in [Range(arr) -> 1..ClusterCount(colors, w, 6)]}

\* aggregate_traits(session_id, selected_refs, features_by_ref, weights).
\* tie_line and tie_outline: how the float comparison of a tie comes out in
\* the two _weighted_trimmed_median calls.
aggregate_traits(selected_refs, weights, labels, tie_line, tie_outline) ==
    LET features == FeaturePairs(selected_refs)
        entries == PaletteEntries(features, weights.palette)
        colors == [k \in 1..Len(entries) |-> entries[k][1]]
        contributions == [k \in 1..Len(entries) |-> entries[k][2]]
        line_values == [k \in 1..Len(features) |->
                          <<features[k][1].line_weight, features[k][2] * weights.line>>]
        outline_values == [k \in 1..Len(features) |->
                          <<features[k][1].outline_clarity, features[k][2] * weights.line>>]
    IN  IF selected_refs = <<>> THEN ValueError
        ELSE IF features = <<>> THEN ValueError
        ELSE IF ChoiceRaises(colors, contributions, 6) THEN ValueError
        ELSE Return(DatasetTraits(
                _aggregate_palette(colors, contributions, 6, labels),
                AggregateMotifs(Scaled(features, weights.motifs)),
                _map_line_weight(_weighted_trimmed_median(line_values, tie_line)),
                _map_outline(_weighted_trimmed_median(outline_values, tie_outline)),
                _build_typography_hints(Scaled(features, weights.type)),
                _build_composition_hints(Scaled(features, weights.comp))))

\* the arguments of one call
TraitsCall(selected_refs, weights) == [selected_refs |-> selected_refs, weights |-> weights]

\* one call of aggregate_traits
Aggregate ==
    /\ a_out = NotCalled
    /\ \E labels \in Labelings(a_in.selected_refs, a_in.weights), tie_line, tie_outline \in BOOLEAN :
          a_out' = aggregate_traits(a_in.selected_refs, a_in.weights, labels, tie_line, tie_outline)
    /\ UNCHANGED a_in
    /\ UNCHANGED <<rvars, svars, lvars, pvars, hvars, cvars, wvars>>

\* the weights the selected references carry
RefWeights == {10, 15, 20}

White == <<255, 255, 255>>

\* a feature with one white palette entry and nothing else to report
Plain == Feature(<<<<White, 10>>>>, 50, 50, TypographyFeature(FALSE, None), <<>>,
                 CompositionFeature(FALSE, 0, FALSE), 0)

\* calls on up to MaxFeatures references, with or without a feature drawn
\* from a pool, with weights=None or a factor map
TraitsCalls(pool, ref_weights, factors) ==
    {TraitsCall(selected, f) :
        selected \in SeqsUpTo({SelectedRef(w, TRUE, feature) : w \in ref_weights, feature \in pool}
                          \cup {SelectedRef(10, FALSE, Plain)}, MaxFeatures),
        f \in factors}

\* ------------------------------ specification of the hints of aggregate_traits
HintFeatures ==
    {[Plain EXCEPT !.typography = TypographyFeature(TRUE, "block"),
                   !.composition = CompositionFeature(TRUE, 100, FALSE)],
     Plain,
     [Plain EXCEPT !.typography = TypographyFeature(TRUE, None),
                   !.composition = CompositionFeature(FALSE, 65, TRUE)],
     [Plain EXCEPT !.composition = CompositionFeature(TRUE, 30, FALSE)]}

HintsInit ==
    /\ SysStart
    /\ RFrozen
    /\ LFrozen
    /\ PFrozen
    /\ HFrozen
    /\ CFrozen
    /\ WFrozen
    /\ a_in \in TraitsCalls(HintFeatures, RefWeights, {Unweighted})
    /\ a_out = NotCalled

SpecHints == HintsInit /\ [][Aggregate]_vars

\* the call has returned traits
Aggregated == a_out.pc = "returned"

\* the traits returned
Traits == a_out.traits[1]

\* the reference-weighted sum of a 0/1 or graded property of the features
WeightedSum(Score(_)) ==
    LET features == FeaturePairs(a_in.selected_refs)
    IN  SumSeq([k \in 1..Len(features) |-> Score(features[k][1]) * features[k][2]])

\* C15: the typography hints are non-empty exactly when the weighted share
\* of features with typography present is >= 30%; the composition hints
\* hold "centered" exactly when the weighted share of centered features is
\* >= 50%, and "symmetrical balance" exactly when the weighted mean
\* symmetry is >= 0.65.
C15_HintThresholds ==
    Aggregated =>
        LET One(feature) == 1
            Present(feature) == IF feature.typography.present THEN 1 ELSE 0
            Centered(feature) == IF feature.composition.centered THEN 1 ELSE 0
            Symmetry(feature) == feature.composition.symmetry
        IN  /\ Traits.typography # <<>> <=>
                  10 * WeightedSum(Present) >= 3 * WeightedSum(One)
            /\ "centered" \in Range(Traits.composition) <=>
                  2 * WeightedSum(Centered) >= WeightedSum(One)
            /\ "symmetrical balance" \in Range(Traits.composition) <=>
                  WeightedSum(Symmetry) >= 65 * WeightedSum(One)

\* ---------------------------- specification of the palette of aggregate_traits
Red == <<255, 0, 0>>

Blue == <<0, 0, 255>>

\* features with no palette entry, one entry, two entries, an entry of
\* weight 0
PaletteFeatures ==
    {[Plain EXCEPT !.palette = <<>>],
     Plain,
     [Plain EXCEPT !.palette = <<<<Red, 6>>, <<Blue, 4>>>>],
     [Plain EXCEPT !.palette = <<<<Red, 0>>>>]}

PaletteInit ==
    /\ SysStart
    /\ RFrozen
    /\ LFrozen
    /\ PFrozen
    /\ HFrozen
    /\ CFrozen
    /\ WFrozen
    /\ a_in \in TraitsCalls(PaletteFeatures, {10, 20}, {Unweighted})
    /\ a_out = NotCalled

SpecPalette == PaletteInit /\ [][Aggregate]_vars

\* the sum of the weights of a palette, as a fraction: the denominators of
\* one palette are 1 or the total cluster weight
WeightSum(palette) ==
    LET dens == {palette[k].weight[2] : k \in 1..Len(palette)}
        den == CHOOSE d \in dens : \A other \in dens : other <= d
    IN  <<SumSeq([k \in 1..Len(palette) |->
                    palette[k].weight[1] * (den \div palette[k].weight[2])]), den>>

\* C16: for every non-empty weighted feature set (features with an empty
\* palette or a single entry included) the aggregated palette has exactly 6
\* entries and their weights sum to 1.0.
C16_PaletteSixSumOne ==
    Aggregated =>
        /\ Len(Traits.palette) = 6
        /\ WeightSum(Traits.palette)[1] = WeightSum(Traits.palette)[2]

\* ----------------------------- specification of the motifs of aggregate_traits
\* features with twelve distinct tags, a repeated tag, a brand risk over
\* and at 0.6, an empty tag, no tag
MotifFeatures ==
    {[Plain EXCEPT !.motifs = <<"t1", "t2", "t3", "t4", "t5", "t6",
                                "t7", "t8", "t9", "t10", "t11", "t12">>],
     [Plain EXCEPT !.motifs = <<"cat", "cat", "moon">>],
     [Plain EXCEPT !.motifs = <<"logo", "cat">>, !.brand_risk = 61],
     [Plain EXCEPT !.motifs = <<"logo">>, !.brand_risk = 60],
     [Plain EXCEPT !.motifs = <<"", "t1">>],
     Plain}

MotifsInit ==
    /\ SysStart
    /\ RFrozen
    /\ LFrozen
    /\ PFrozen
    /\ HFrozen
    /\ CFrozen
    /\ WFrozen
    /\ a_in \in TraitsCalls(MotifFeatures, {10, 20}, {Unweighted})
    /\ a_out = NotCalled

SpecMotifs == MotifsInit /\ [][Aggregate]_vars

\* the selected references whose tags count: a feature, brand_risk <= 0.6
SafeRefs ==
    {k \in 1..Len(a_in.selected_refs) :
        /\ a_in.selected_refs[k].has_feature
        /\ a_in.selected_refs[k].feature.brand_risk <= 60}

\* the weighted number of occurrences of the tags of Wanted in the counted
\* references
TagCount(Wanted(_)) ==
    SumSeq([k \in 1..Len(a_in.selected_refs) |->
        IF k \in SafeRefs
        THEN Max(a_in.selected_refs[k].weight, 5)
             * Cardinality({i \in DOMAIN a_in.selected_refs[k].feature.motifs :
                               Wanted(a_in.selected_refs[k].feature.motifs[i])})
        ELSE 0])

\* C17: the motif list has at most 12 tags, no tag twice, no tag whose
\* weighted count is below 8% of the total weighted tag count of the
\* references counted; references with brand_risk > 0.6 contribute to
\* neither the tags nor the totals.
C17_MotifsBounded ==
    Aggregated =>
        LET motifs == Traits.motifs
            AnyTag(tag) == tag # ""
        IN  /\ Len(motifs) <= 12
            /\ \A i, j \in 1..Len(motifs) : motifs[i] = motifs[j] => i = j
            /\ \A i \in 1..Len(motifs) :
                  LET This(tag) == tag = motifs[i]
                  IN  /\ TagCount(This) > 0
                      /\ 100 * TagCount(This) >= 8 * TagCount(AnyTag)

\* a reference over the brand-risk limit was selected and its tag left out,
\* a tag of a counted reference fell under the floor, and tags were returned
C17_Witness ==
    /\ Aggregated
    /\ Traits.motifs # <<>>
    /\ \E k \in 1..Len(a_in.selected_refs) :
          /\ a_in.selected_refs[k].has_feature
          /\ a_in.selected_refs[k].feature.brand_risk > 60
          /\ "logo" \in Range(a_in.selected_refs[k].feature.motifs)
          /\ "logo" \notin Range(Traits.motifs)
    /\ \E k \in SafeRefs :
          \E tag \in Range(a_in.selected_refs[k].feature.motifs) :
              tag # "" /\ tag \notin Range(Traits.motifs)

\* ------------------- specification of the line and outline of aggregate_traits
\* features on both sides of the bounds 0.33, 0.66 and 0.55
LineFeatures ==
    {[Plain EXCEPT !.line_weight = 33, !.outline_clarity = 55],
     [Plain EXCEPT !.line_weight = 34, !.outline_clarity = 54],
     [Plain EXCEPT !.line_weight = 66, !.outline_clarity = 55],
     [Plain EXCEPT !.line_weight = 67, !.outline_clarity = 54]}

LineInit ==
    /\ SysStart
    /\ RFrozen
    /\ LFrozen
    /\ PFrozen
    /\ HFrozen
    /\ CFrozen
    /\ WFrozen
    /\ a_in \in TraitsCalls(LineFeatures, RefWeights, {Unweighted})
    /\ a_out = NotCalled

SpecLine == LineInit /\ [][Aggregate]_vars

\* the <<value, reference weight>> pairs of the references with a feature
Scores(Score(_)) ==
    LET features == FeaturePairs(a_in.selected_refs)
    IN  [k \in 1..Len(features) |-> <<Score(features[k][1]), features[k][2]>>]

\* m is an input value and a weighted median of the values once a tenth of
\* the total weight is removed from each tail: of the remaining eight
\* tenths, at most half lies below m and at most half above
IsTrimmedMedian(values, m) ==
    LET total == SumSeq([k \in 1..Len(values) |-> values[k][2]])
        below == SumSeq([k \in 1..Len(values) |->
                           IF values[k][1] < m THEN values[k][2] ELSE 0])
        above == SumSeq([k \in 1..Len(values) |->
                           IF values[k][1] > m THEN values[k][2] ELSE 0])
    IN  /\ \E k \in 1..Len(values) : values[k][1] = m
        /\ Max(0, 10 * below - total) <= 4 * total
        /\ Max(0, 10 * above - total) <= 4 * total

\* C18: with reference weights in {1.0, 1.5, 2.0} the line_weight category
\* is thin / regular / bold for a 10%-trimmed weighted median of the
\* line_weight values <= 0.33 / <= 0.66 / above, the outline is clean
\* exactly when the trimmed median of outline_clarity is >= 0.55, and each
\* median is one of the input values.  Where the weight splits evenly
\* around two values, either of them is a median.
C18_TrimmedMedianMapping ==
    Aggregated =>
        LET Line(feature) == feature.line_weight
            Outline(feature) == feature.outline_clarity
        IN  /\ \E k \in 1..Len(Scores(Line)) :
                  LET m == Scores(Line)[k][1]
                  IN  /\ IsTrimmedMedian(Scores(Line), m)
                      /\ Traits.line_weight =
                            IF m <= 33 THEN "thin" ELSE IF m <= 66 THEN "regular" ELSE "bold"
            /\ \E k \in 1..Len(Scores(Outline)) :
                  LET m == Scores(Outline)[k][1]
                  IN  /\ IsTrimmedMedian(Scores(Outline), m)
                      /\ (Traits.outline = "clean") = (m >= 55)

\* three references of different weights and three different line values,
\* aggregated to the median at the bound 0.66 and a clean outline
C18_Witness ==
    /\ Aggregated
    /\ Len(FeaturePairs(a_in.selected_refs)) = 3
    /\ {a_in.selected_refs[k].feature.line_weight : k \in 1..3} = {33, 66, 67}
    /\ {a_in.selected_refs[k].weight : k \in 1..3} = RefWeights
    /\ Traits.line_weight = "regular"
    /\ Traits.outline = "clean"

\* ---------------------------------------------------------- prompt.py
\* A string the code builds from fragments is the sequence of its
\* fragments (the literal pieces of an f-string and the values put between
\* them); the prompt text is the sequence of its lines.
_BASE_CONSTRAINTS ==
    <<"transparent background", "no shadows", "no gradients", "no textures",
      "clean vector edges", "centered standalone composition">>

_BASE_NEGATIVE ==
    "photo-realism, photographic textures, noise, background patterns, brand logos, trademark words"

\* _AUDIENCE_MOODS.get(mode, "refined minimalism")
_AUDIENCE_MOODS(mode) ==
    IF mode = "Baby" THEN "soft, cozy, nurturing warmth"
    ELSE IF mode = "Toddler" THEN "playful, friendly energy"
    ELSE IF mode = "Baby-Mama" THEN "calm, comforting sophistication"
    ELSE IF mode = "Luxury-Inspired" THEN "premium minimal minimalism"
    ELSE "refined minimalism"

\* _LINE_DESCRIPTORS.get(line_weight, "balanced medium line work")
_LINE_DESCRIPTORS(line_weight) ==
    IF line_weight = "thin" THEN "delicate thin line art"
    ELSE IF line_weight = "bold" THEN "bold, confident outlines"
    ELSE "balanced medium line work"

\* _OUTLINE_DESCRIPTORS.get(outline, "ultra clean outline clarity")
_OUTLINE_DESCRIPTORS(outline) ==
    IF outline = "rough" THEN "slightly hand-drawn outline texture"
    ELSE "ultra clean outline clarity"

\* ", ".join(parts)
RECURSIVE Join(_)
Join(parts) ==
    IF parts = <<>> THEN <<>>
    ELSE IF Len(parts) = 1 THEN parts
    ELSE <<Head(parts), ", ">> \o Join(Tail(parts))

\* f"{weight:.2f}": the weight <<n, d>> rounded to hundredths, as the
\* digits of the number of hundredths
Format2f(weight) == ToString((200 * weight[1] + weight[2]) \div (2 * weight[2]))

\* _palette_text
RECURSIVE _palette_text(_)
_palette_text(palette) ==
    IF palette = <<>> THEN <<>>
    ELSE <<Head(palette).hex, " (", Format2f(Head(palette).weight), ")">>
         \o (IF Len(palette) = 1 THEN <<>> ELSE <<", ">> \o _palette_text(Tail(palette)))

\* _motifs_subject
_motifs_subject(traits, audience_modes) ==
    LET motifs == IF traits.motifs # <<>>
                  THEN SubSeq(traits.motifs, 1, Min(6, Len(traits.motifs)))
                  ELSE <<"abstract shapes">>
        audience == IF audience_modes # <<>> THEN Join(audience_modes)
                    ELSE <<"broad audience">>
    IN  <<"vector iconography for ">> \o audience \o <<" featuring ">> \o Join(motifs)

\* _weight_modifier; value is <<>> for None, <<tenths>> for a float
_weight_modifier(value) ==
    IF value = <<>> THEN "balanced"
    ELSE IF value[1] >= 16 THEN "strong focus on"
    ELSE IF value[1] <= 7 THEN "light touch of"
    ELSE "balanced"

\* _mood_line
_mood_line(audience_modes, motifs) ==
    LET mapped == [k \in 1..Len(audience_modes) |-> _AUDIENCE_MOODS(audience_modes[k])]
        moods == IF mapped = <<>> THEN <<"refined minimalism">> ELSE mapped
        highlight == IF motifs # <<>> THEN Join(SubSeq(motifs, 1, Min(3, Len(motifs))))
                     ELSE <<"soft geometry">>
    IN  <<"Mood: ">> \o Join(Distinct(moods)) \o <<" with hints of ">> \o highlight \o <<".">>

\* trait_weights.get(key) after line 74; trait_weights is <<>> for None,
\* <<map>> for a mapping
Get(trait_weights, key) ==
    IF trait_weights = <<>> THEN <<>>
    ELSE IF key \in DOMAIN trait_weights[1] THEN <<trait_weights[1][key]>>
    ELSE <<>>

\* the last line lacks its label
NegativeLine_bare == <<_BASE_NEGATIVE, ".">>

\* line 97: f"Negative: {_BASE_NEGATIVE}."
NegativeLine == <<"Negative: ", _BASE_NEGATIVE, ".">>

\* build_master_prompt
build_master_prompt(traits, audience_modes, trait_weights) ==
    LET subject_line == _motifs_subject(traits, audience_modes)
        palette_modifier == _weight_modifier(Get(trait_weights, "palette"))
        motif_modifier == _weight_modifier(Get(trait_weights, "motifs"))
        line_descriptor == _LINE_DESCRIPTORS(traits.line_weight)
        outline_descriptor == _OUTLINE_DESCRIPTORS(traits.outline)
        typography_text == IF traits.typography # <<>> THEN Join(traits.typography)
                           ELSE <<"avoid any text or lettering">>
        composition_text == IF traits.composition # <<>> THEN Join(traits.composition)
                            ELSE <<"center-focused">>
        palette_text == _palette_text(traits.palette)
        NotLabel(part) == part # "Mood: "
        lines ==
            << Join(_BASE_CONSTRAINTS) \o <<".">>,
               <<"Subject & Motifs (", motif_modifier, "): ">> \o subject_line \o <<".">>,
               <<"Palette (", palette_modifier, "): ">> \o palette_text \o <<".">>,
               <<"Line & Outline: ", line_descriptor, " with ", outline_descriptor, ".">>,
               <<"Typography: ">> \o typography_text \o <<".">>,
               <<"Composition: ">> \o composition_text \o <<".">>,
               _mood_line(audience_modes, traits.motifs),
               NegativeLine >>
        prompt_json ==
            [audience_modes |-> audience_modes,
             palette |-> traits.palette,
             motifs |-> traits.motifs,
             line |-> traits.line_weight,
             outline |-> traits.outline,
             typography |-> IF traits.typography # <<>> THEN traits.typography
                            ELSE <<"avoid text">>,
             composition |-> IF traits.composition # <<>> THEN traits.composition
                             ELSE <<"centered">>,
             constraints |-> _BASE_CONSTRAINTS,
             mood |-> SelectSeq(_mood_line(audience_modes, traits.motifs), NotLabel),
             negative |-> _BASE_NEGATIVE]
    IN  [prompt_text |-> lines, prompt_json |-> prompt_json]

\* the arguments of one build_master_prompt call
PromptCall(traits, audience_modes, trait_weights) ==
    [traits |-> traits, audience_modes |-> audience_modes, trait_weights |-> trait_weights]

\* one call of build_master_prompt
BuildPrompt ==
    /\ p_out = Unbuilt
    /\ p_out' = [pc |-> "returned",
                 payload |-> <<build_master_prompt(p_in.traits, p_in.audience_modes,
                                                   p_in.trait_weights)>>]
    /\ UNCHANGED p_in
    /\ UNCHANGED <<rvars, svars, lvars, avars, hvars, cvars, wvars>>

\* ------------------------------------ specification of build_master_prompt
SamplePalette ==
    <<PaletteColor("#FF0000", <<2, 3>>), PaletteColor("#0000FF", <<1, 3>>)>>
    \o [k \in 1..4 |-> PaletteColor("#FF0000", <<0, 1>>)]

\* traits with two motifs, with hints and no motif, with more than six motifs
PromptTraits ==
    {DatasetTraits(SamplePalette, <<"cat", "moon">>, "regular", "clean", <<>>, <<>>),
     DatasetTraits(EmptyPalette(6), <<>>, "bold", "rough",
                   <<"confident block typography">>, <<"centered", "subtle lattice">>),
     DatasetTraits(SamplePalette, <<"t1", "t2", "t3", "t4", "t5", "t6", "t7">>,
                   "thin", "clean", <<>>, <<"centered">>)}

AudienceLists == {<<>>, <<"Baby">>, <<"Baby", "Teen", "Baby">>}

\* the weights of a trait a caller sends, in tenths
PromptWeights == {0, 6, 7, 8, 16, 17}

\* trait_weights: None, or a map giving some of palette and motifs
TraitWeightMaps ==
    {<<>>} \cup {<<map>> : map \in UNION {[keys -> PromptWeights] :
                                             keys \in SUBSET {"palette", "motifs"}}}

PromptInit ==
    /\ SysStart
    /\ RFrozen
    /\ LFrozen
    /\ AFrozen
    /\ HFrozen
    /\ CFrozen
    /\ WFrozen
    /\ p_in \in {PromptCall(traits, audience_modes, trait_weights) :
                    traits \in PromptTraits, audience_modes \in AudienceLists,
                    trait_weights \in TraitWeightMaps}
    /\ p_out = Unbuilt

SpecPrompt == PromptInit /\ [][BuildPrompt]_vars

\* the call has returned
Built == p_out.pc = "returned"

PromptText == p_out.payload[1].prompt_text

PromptJson == p_out.payload[1].prompt_json

\* C19: the prompt text contains each fixed print-safety constraint (the
\* phrase "transparent background" among them) and a line that starts with
\* "Negative:" followed by the fixed negative clause; prompt_json carries
\* the same constraints and negative clause.
C19_ConstraintsAndNegative ==
    Built =>
        /\ \A c \in Range(_BASE_CONSTRAINTS) \cup {"transparent background"} :
              \E l \in 1..Len(PromptText) :
                  \E k \in 1..Len(PromptText[l]) : PromptText[l][k] = c
        /\ \E l \in 1..Len(PromptText) :
              /\ Len(PromptText[l]) >= 2
              /\ PromptText[l][1] = "Negative: "
              /\ PromptText[l][2] = _BASE_NEGATIVE
        /\ PromptJson.constraints = _BASE_CONSTRAINTS
        /\ PromptJson.negative = _BASE_NEGATIVE

\* a prompt built for audience_modes = ["Baby"] with a palette weight given
C19_Witness ==
    /\ Built
    /\ p_in.audience_modes = <<"Baby">>
    /\ Get(p_in.trait_weights, "palette") = <<17>>
    /\ p_in.traits.motifs # <<>>
    /\ Len(PromptText) = 8

\* the phrasing a weight calls for: high over 1.6, low under 0.7
Emphasis(value) ==
    IF value # <<>> /\ value[1] > 16 THEN "strong focus on"
    ELSE IF value # <<>> /\ value[1] < 7 THEN "light touch of"
    ELSE "balanced"

\* C20: the palette (resp. motifs) line has the high-emphasis phrasing
\* exactly when the weight given for the trait is > 1.6, the low-emphasis
\* phrasing exactly when it is < 0.7, and the default phrasing otherwise,
\* the weights 1.6 and 0.7 and an absent weight included.
C20_EmphasisThresholds ==
    Built =>
        /\ PromptText[3][2] = Emphasis(Get(p_in.trait_weights, "palette"))
        /\ PromptText[2][2] = Emphasis(Get(p_in.trait_weights, "motifs"))

\* ------------------------------------ specification of hamming_distance
\* A character of an argument is a hexadecimal digit 0..15 or NonHex, a
\* character int(..., 16) rejects.
NonHex == 16

\* argument strings: hashes of compute_phash, the empty string, strings of
\* 1, 15 and 17 hexadecimal digits, strings with a rejected character
HashStrings ==
    {HashA, HashB, HashD, HashE, <<>>, <<15>>, Zeros(15), <<1>> \o Ones(16),
     <<NonHex>>, Zeros(15) \o <<NonHex>>, <<NonHex>> \o Ones(15)}

HammingInit ==
    /\ SysStart
    /\ RFrozen
    /\ LFrozen
    /\ AFrozen
    /\ PFrozen
    /\ CFrozen
    /\ WFrozen
    /\ h_in \in HashStrings \X HashStrings
    /\ h_out = -1

\* one call of hamming_distance
Distance ==
    /\ h_out = -1
    /\ h_out' = hamming_distance(h_in[1], h_in[2])
    /\ UNCHANGED h_in
    /\ UNCHANGED <<rvars, svars, lvars, avars, pvars, cvars, wvars>>

SpecHamming == HammingInit /\ [][Distance]_vars

\* not a string of 16 hexadecimal digits
Malformed(h) == Len(h) # 16 \/ \E i \in 1..Len(h) : h[i] \notin 0..15

\* C21: hamming_distance(a, b) = hamming_distance(b, a), it lies in
\* [0, 64], it is 0 for a hash of compute_phash and itself, and it is
\* exactly 64 whenever an argument is not a string of 16 hexadecimal digits.
C21_DistanceContract ==
    h_out # -1 =>
        /\ h_out = hamming_distance(h_in[2], h_in[1])
        /\ h_out \in 0..64
        /\ (h_in[1] = h_in[2] /\ ~Malformed(h_in[1])) => h_out = 0
        /\ (Malformed(h_in[1]) \/ Malformed(h_in[2])) => h_out = 64

\* ------------------------------------- further claims about the service
\* the number of references of a session with a status
CountStatus(s, status) ==
    Cardinality({i \in 1..Len(refs) : refs[i].session_id = s /\ refs[i].status = status})

\* C23: in every reachable state the selected count of a session's
\* statistics equals the number of the session's references whose status
\* is selected.
C23_SelectedCount ==
    \A s \in DOMAIN sessions : sessions[s].stats.selected = CountStatus(s, "selected")

\* C25: a discovery run ends in status error only on a failure of the
\* shared HTTP client: a step that sets a session to error is never a step
\* of a run that pooled candidate records, whatever their field values (a
\* bad candidate is dropped and the run ends ready).
C25_ErrorOnlyFromClient ==
    [][\A s \in DOMAIN sessions :
          (sessions'[s].status = "error" /\ sessions[s].status # "error")
              => run'[s].aggregated = <<>>]_vars

\* C28: the thumbnail file stored under a reference id holds the image the
\* row's p_hash and quality were computed from, also after a higher-quality
\* near-duplicate has replaced the row under that id.
C28_ThumbnailMatchesRow ==
    \A i \in 1..Len(refs) :
        /\ refs[i].id \in DOMAIN thumbs
        /\ thumbs[refs[i].id] = <<refs[i].p_hash, refs[i].quality>>

\* C27: after any sequence of discovery runs and local uploads, no two
\* non-deleted references of one session have p_hashes within DUP_DISTANCE,
\* also when an upload interleaves with a run.
C27_NoNearPairStored ==
    \A i, j \in 1..Len(refs) :
        (/\ i # j
         /\ refs[i].session_id = refs[j].session_id
         /\ refs[i].status # "deleted"
         /\ refs[j].status # "deleted")
            => hamming_distance(refs[i].p_hash, refs[j].p_hash) > DUP_DISTANCE

\* ------------------------------- features, cached traits, master prompt
\* store.upsert_features: one row per reference_id (the primary key),
\* written with the session id of the call
upsert_features(table, session_id, extracted) ==
    [k \in DOMAIN table \cup DOMAIN extracted |->
        IF k \in DOMAIN extracted
        THEN [session_id |-> session_id, feature |-> extracted[k]]
        ELSE table[k]]

\* store.delete_features: DELETE ... WHERE session_id = ? AND reference_id = ?
delete_features(table, session_id, reference_ids) ==
    [k \in {r \in DOMAIN table :
               ~(r \in reference_ids /\ table[r].session_id = session_id)} |-> table[k]]

\* store.get_features: the features of a session keyed by reference id
get_features(table, session_id) ==
    [k \in {r \in DOMAIN table : table[r].session_id = session_id} |-> table[k].feature]

\* store.upsert_traits: one row per session, overwritten
upsert_traits(table, session_id, traits) ==
    [k \in DOMAIN table \cup {session_id} |->
        IF k = session_id THEN traits ELSE table[k]]

\* list_references(session_id, status="selected", offset=0, limit=500)
list_selected(table, session_id) ==
    LET Selected(ref) == ref.session_id = session_id /\ ref.status = "selected"
    IN  SelectSeq(table, Selected)

Ids(references) == {references[k].id : k \in 1..Len(references)}

\* features.measure_outline on the sample images: <<line_weight,
\* outline_clarity>>, thin lines on the image of hash HashA and bold lines
\* on the others
measure_outline(image) == IF image[1] = HashA THEN <<20, 50>> ELSE <<90, 50>>

\* features.build_feature: the extractors applied to the decoded thumbnail
build_feature(image) ==
    [Plain EXCEPT !.line_weight = measure_outline(image)[1],
                  !.outline_clarity = measure_outline(image)[2]]

\* the selected_refs and features_by_ref arguments the two handlers build:
\* subset = {ref.id: features[ref.id] for ref in selected if ref.id in features}
SelectedWithFeatures(selected, by_ref) ==
    [k \in 1..Len(selected) |->
        SelectedRef(selected[k].weight, selected[k].id \in DOMAIN by_ref,
                    IF selected[k].id \in DOMAIN by_ref THEN by_ref[selected[k].id]
                    ELSE Plain)]

\* what aggregate_traits(session_id, selected, subset, weights=None) can
\* return on the stored state of a session
AggregateResults(table, rows, session_id) ==
    LET selected_refs == SelectedWithFeatures(list_selected(table, session_id),
                                              get_features(rows, session_id))
    IN  {aggregate_traits(selected_refs, Unweighted, labels, tie_line, tie_outline) :
            labels \in Labelings(selected_refs, Unweighted),
            tie_line \in BOOLEAN, tie_outline \in BOOLEAN}

\* analyze_references, router.py 222-268; failed: the references whose
\* thumbnail Pillow cannot open or whose extraction raises
analyze_references(s, scope, failed) ==
    LET references == IF scope = "selected" THEN list_selected(refs, s)
                      ELSE ExistingRefs(refs, s)
        done == {id \in Ids(references) : id \in DOMAIN thumbs /\ id \notin failed}
        extracted == [id \in done |-> build_feature(thumbs[id])]
        stored == upsert_features(feature_rows, s, extracted)
        stale_ids == Ids(references) \ done
        status == IF s \notin DOMAIN sessions THEN 404
                  ELSE IF references = <<>> THEN 400 ELSE 200
    IN  /\ handler = Idle
        /\ feature_rows' = IF status # 200 \/ done = {} THEN feature_rows
                           ELSE IF scope = "selected"
                                THEN delete_features(stored, s, stale_ids)
                                ELSE stored
        /\ response' = AnswerWith("analyze", s, 0, status,
                          IF status = 200
                          THEN <<[scope |-> scope, total |-> Cardinality(done),
                                  extracted |-> done]>>
                          ELSE <<>>)
        /\ UNCHANGED <<svars, cached_traits>>
        /\ UNCHANGED <<rvars, lvars, avars, pvars, hvars, wvars>>

\* get_dataset_traits, router.py 284-306 (op = "traits"), and
\* autofill_master_prompt, router.py 330-365 (op = "autofill", with
\* audience_modes = [] and trait_weights = None).  The first always
\* aggregates; the second takes the cached traits when there are any and
\* aggregates otherwise.  Both end with upsert_traits; autofill answers with
\* build_master_prompt of the traits.
traits_request(s, op) ==
    LET cached == op = "autofill" /\ s \in DOMAIN cached_traits
        selected == list_selected(refs, s)
        subset == get_features(feature_rows, s)
        status == IF s \notin DOMAIN sessions THEN 404
                  ELSE IF cached THEN 200
                  ELSE IF selected = <<>> THEN 400
                  ELSE IF Ids(selected) \cap DOMAIN subset = {} THEN 404 ELSE 200
    IN  /\ handler = Idle
        /\ IF status # 200
           THEN /\ response' = AnswerWith(op, s, 0, status, <<>>)
                /\ UNCHANGED cached_traits
           ELSE \E result \in IF cached THEN {Return(cached_traits[s])}
                              ELSE AggregateResults(refs, feature_rows, s) :
                   IF result.pc = "raised"
                   THEN /\ response' = AnswerWith(op, s, 0,
                                                  IF op = "traits" THEN 400 ELSE 500, <<>>)
                        /\ UNCHANGED cached_traits
                   ELSE /\ cached_traits' = upsert_traits(cached_traits, s, result.traits[1])
                        /\ response' = AnswerWith(op, s, 0, 200,
                              IF op = "traits" THEN result.traits
                              ELSE <<build_master_prompt(result.traits[1], <<>>, <<>>)>>)
        /\ UNCHANGED <<svars, feature_rows>>
        /\ UNCHANGED <<rvars, lvars, avars, pvars, hvars, wvars>>

\* --------------------------------------- specification of the curation
\* two sessions whose searches found nothing and that hold uploaded images:
\* references 1 and 2 in session s1, reference 3 in session s2
CurateSessions == {"s1", "s2"}

\* a reference id no row carries
UnknownId == 9

RequestIds == {1, 2, 3, UnknownId}

UploadedStats == DiscoverStats(1, 1, 0, <<0, 1>>)

CurateInit ==
    /\ sessions = [s \in CurateSessions |->
                      [NewSession(<<"local">>) EXCEPT !.status = "ready",
                                                      !.stats = UploadedStats]]
    /\ refs = <<Reference(1, "s1", "local", HashA, 2),
                Reference(2, "s1", "local", HashD, 1),
                Reference(3, "s2", "local", HashA, 2)>>
    /\ thumbs = <<<<HashA, 2>>, <<HashD, 1>>, <<HashA, 2>>>>
    /\ next_id = 4
    /\ run = [s \in SessionIds |->
                 RunTask("done", <<"local">>, 1, NewStats, <<>>, <<>>, <<>>, <<>>, 0)]
    /\ handler = Idle
    /\ uploads = 3
    /\ actions = 0
    /\ RFrozen
    /\ LFrozen
    /\ AFrozen
    /\ PFrozen
    /\ HFrozen
    /\ CFrozen
    /\ WFrozen

CurateNext ==
    \/ \E s \in CurateSessions, id \in RequestIds : SelectReference(s, id)
    \/ \E s \in CurateSessions, id \in RequestIds, weight \in SelectWeights :
          SelectWithWeight(s, id, weight)
    \/ SelectWeight
    \/ \E s \in CurateSessions, id \in RequestIds : HideReference(s, id)
    \/ \E s \in CurateSessions, id \in RequestIds : DeleteReference(s, id)
    \/ \E s \in CurateSessions, id \in RequestIds : StarRead(s, id)
    \/ StarWrite
    \/ \E s \in CurateSessions, scope \in {"selected", "all"}, failed \in SUBSET {1, 2} :
          analyze_references(s, scope, failed)
    \/ \E s \in CurateSessions, op \in {"traits", "autofill"} : traits_request(s, op)

SpecCurate == CurateInit /\ [][CurateNext]_vars

\* the reference ids with a stored Feature in a session
FeatureIds(session_id) == DOMAIN get_features(feature_rows, session_id)

\* C22: after run-feature-analysis with scope=selected has returned, the
\* reference ids with a stored Feature in the session are exactly the
\* currently selected references whose extraction succeeded in that run.
C22_FeaturesMatchSelection ==
    (response.op = "analyze" /\ response.status = 200
        /\ response.body[1].scope = "selected")
        => FeatureIds(response.session_id) =
              response.body[1].extracted \cap Ids(list_selected(refs, response.session_id))

\* a step of a select, hide, delete or star request
EditStep ==
    /\ response'.op \in {"select", "hide", "delete", "star"}
    /\ actions' # actions \/ response' # response

\* the row the request of an edit step names
Target(ref) ==
    ref.id = response'.reference_id /\ ref.session_id = response'.session_id

\* C24: select, hide and delete change only the status (select with a
\* weight: status and weight) and star changes only the weight of the one
\* reference named by (session id, reference id); every other field, every
\* other reference and every feature, traits and session record is left
\* alone; for an id that is unknown or of another session nothing changes
\* and not-found is answered.
C24_EditFrame ==
    [][EditStep =>
          /\ sessions' = sessions
          /\ feature_rows' = feature_rows
          /\ cached_traits' = cached_traits
          /\ thumbs' = thumbs
          /\ Len(refs') = Len(refs)
          /\ \A i \in 1..Len(refs) :
                IF Target(refs[i])
                THEN /\ refs'[i] = [refs[i] EXCEPT !.status = refs'[i].status,
                                                   !.weight = refs'[i].weight]
                     /\ response'.op \in {"hide", "delete", "star"} =>
                           \/ refs'[i].weight = refs[i].weight
                           \/ refs'[i].status = refs[i].status
                     /\ response'.op # "star" =>
                           refs'[i].status \in {refs[i].status,
                               CASE response'.op = "select" -> "selected"
                                 [] response'.op = "hide" -> "hidden"
                                 [] OTHER -> "deleted"}
                     /\ response'.op \in {"hide", "delete"} => refs'[i].weight = refs[i].weight
                     /\ response'.op = "star" => refs'[i].status = refs[i].status
                     /\ response'.status # 404
                ELSE refs'[i] = refs[i]
          /\ (\A i \in 1..Len(refs) : ~Target(refs[i])) => response'.status = 404
          /\ response'.status = 404 => refs' = refs]_vars

\* a select with a weight has been answered for a stored reference, as the
\* second request of the client
C24_Witness ==
    /\ response.op = "select"
    /\ response.status = 200
    /\ \E i \in 1..Len(refs) :
          /\ refs[i].id = response.reference_id
          /\ refs[i].status = "selected"
          /\ refs[i].weight = 25
    /\ actions = 2

\* the traits fields a prompt payload renders
Rendered(prompt_json, traits) ==
    /\ prompt_json.palette = traits.palette
    /\ prompt_json.motifs = traits.motifs
    /\ prompt_json.line = traits.line_weight
    /\ prompt_json.outline = traits.outline

\* C29: compose-prompt renders, and caches, traits that are an aggregation
\* of the session's currently selected references, their weights and their
\* stored features: never traits aggregated before one of these changed.
C29_PromptFromCurrentTraits ==
    [][(response'.op = "autofill" /\ response'.status = 200 /\ response' # response) =>
          \E result \in AggregateResults(refs, feature_rows, response'.session_id) :
              /\ result.pc = "returned"
              /\ cached_traits'[response'.session_id] = result.traits[1]
              /\ Rendered(response'.body[1].prompt_json, result.traits[1])]_vars

\* ------------------- star requests of several workers on one store file
\* the server processes (or threads) that answer requests on the same
\* SQLite file; DiscoveryStore._lock is held for one statement only
Workers == {1, 2}

\* star requests one worker answers
MaxStars == 2

StarIds == {1, 2}

\* the locals of the star_reference call of one worker, and how many stars
\* it has completed on each reference
StarCall(pc, reference_id, next_weight, starred) ==
    [pc |-> pc, reference_id |-> reference_id, next_weight |-> next_weight,
     starred |-> starred]

StarInit ==
    /\ sessions = [s \in CurateSessions |->
                      [NewSession(<<"local">>) EXCEPT !.status = "ready",
                                                      !.stats = UploadedStats]]
    /\ refs = <<Reference(1, "s1", "local", HashA, 2),
                Reference(2, "s1", "local", HashD, 1),
                Reference(3, "s2", "local", HashA, 2)>>
    /\ thumbs = <<<<HashA, 2>>, <<HashD, 1>>, <<HashA, 2>>>>
    /\ next_id = 4
    /\ run = [s \in SessionIds |->
                 RunTask("done", <<"local">>, 1, NewStats, <<>>, <<>>, <<>>, <<>>, 0)]
    /\ handler = Idle
    /\ uploads = 3
    /\ actions = 0
    /\ RFrozen
    /\ LFrozen
    /\ AFrozen
    /\ PFrozen
    /\ HFrozen
    /\ CFrozen
    /\ workers = [w \in Workers |-> StarCall("idle", 0, 0, [id \in StarIds |-> 0])]

\* star_reference in worker w: get_reference and the next weight, lines
\* 178-181 (the reference exists) ...
WorkerStarRead(w, id) ==
    /\ workers[w].pc = "idle"
    /\ workers[w].starred[1] + workers[w].starred[2] < MaxStars
    /\ HasReference(refs, "s1", id)
    /\ workers' = [workers EXCEPT ![w].pc = "read",
                                  ![w].reference_id = id,
                                  ![w].next_weight =
                                      NextWeight(get_reference(refs, "s1", id).weight)]
    /\ UNCHANGED <<rvars, svars, lvars, avars, pvars, hvars, cvars>>

\* ... and update_reference_weight, line 182
WorkerStarWrite(w) ==
    /\ workers[w].pc = "read"
    /\ refs' = update_reference_weight(refs, "s1", workers[w].reference_id,
                                       workers[w].next_weight)
    /\ workers' = [workers EXCEPT ![w].pc = "idle",
                                  ![w].starred[workers[w].reference_id] = @ + 1]
    /\ UNCHANGED <<sessions, thumbs, next_id, run, handler, uploads, actions>>
    /\ UNCHANGED <<rvars, lvars, avars, pvars, hvars, cvars>>

StarNext ==
    \/ \E w \in Workers, id \in StarIds : WorkerStarRead(w, id)
    \/ \E w \in Workers : WorkerStarWrite(w)

SpecStar == StarInit /\ [][StarNext]_vars

\* the weight after n star requests applied one after the other
RECURSIVE Starred(_, _)
Starred(weight, n) == IF n = 0 THEN weight ELSE NextWeight(Starred(weight, n - 1))

RunStoreRaises(s) ==
    /\ run[s].pc \in {"upserted", "finishing"}
    /\ run' = [run EXCEPT ![s].pc = "raised"]
    /\ UNCHANGED <<sessions, refs, thumbs, next_id, handler, uploads, actions>>
    /\ UNCHANGED rvars
    /\ UNCHANGED <<lvars, avars, pvars, hvars, cvars, wvars>>

\* the next step of the background task of a session: the thread pool runs
\* it, and every adapter call and thumbnail fetch returns or raises
RunStep(s) ==
    \/ RunBegin(s)
    \/ RunClientError(s)
    \/ /\ run[s].pc = "begun"
       /\ \E outcome \in [Range(_build_adapters(run[s].adapters)) ->
                             UNION {SearchOutcomes(n, run[s].limit) :
                                      n \in Range(_build_adapters(run[s].adapters))}] :
              /\ \A n \in DOMAIN outcome : outcome[n] \in SearchOutcomes(n, run[s].limit)
              /\ RunSearch(s, outcome)
    \/ RunFinish(s)
    \/ RunStoreRaises(s)

FairNext ==
    \/ \E s \in SessionIds, adapters \in AdapterChoices, limit \in 1..MaxLimit :
          CreateSession(s, adapters, limit)
    \/ CreateSchedule
    \/ \E s \in SessionIds : RunStep(s)

SpecFair ==
    /\ Init
    /\ [][FairNext]_vars
    /\ WF_vars(CreateSchedule)
    /\ \A s \in SessionIds : WF_vars(RunStep(s))

\* C30: every discovery run started on an existing session eventually sets
\* the status of the session to ready or error, whatever the adapter names
\* and whatever step of the run fails.
C30_RunEnds ==
    \A s \in SessionIds :
        (run[s].pc = "queued")
            ~> (s \in DOMAIN sessions /\ sessions[s].status \in {"ready", "error"})

====
